---- MODULE Spec2Model ----
(***************************************************************************)
(* Weather summarizer: DatasetAnalyzer -> ContentPlanner ->                *)
(* TemplateRealizer, wired by Summarizer.generate_summary.                 *)
(*                                                                         *)
(* Numbers.  Table cells are whole units.  Every derived statistic is a    *)
(* fixed-point number in hundredths (0.3 is 30, 2.0 is 200); the two       *)
(* non-numbers of the Python code, float NaN and None, are the sentinels   *)
(* NaN and NoneNum, and every comparison goes through Gt/Ge/Lt, which are  *)
(* false on NaN as IEEE comparisons are.                                   *)
(*                                                                         *)
(* Dictionaries are functions with string keys (records); Python None as   *)
(* a sub-bundle is the record None and the empty dict is <<>>.             *)
(*                                                                         *)
(* Text is a sequence of string tokens; the empty string is <<>>.          *)
(***************************************************************************)
EXTENDS Integers, Sequences, FiniteSets, TLC

VARIABLES scipy, config, df, pc, gi, results, stats, content, fi, sentences, summary, error

vars == <<scipy, config, df, pc, gi, results, stats, content, fi, sentences, summary, error>>

-----------------------------------------------------------------------------
(* Values                                                                  *)

NaN == 0 - 999999
NoneNum == 0 - 888888
None == [none |-> TRUE]
EmptyDict == << >>

IsNum(a) == a # NaN /\ a # NoneNum

\* Python truthiness of a dict-or-None value: `if d:` / `if not d:`
Truthy(d) == d # None /\ DOMAIN d # {}

Gt(a, b) == IsNum(a) /\ IsNum(b) /\ a > b
Ge(a, b) == IsNum(a) /\ IsNum(b) /\ a >= b
Lt(a, b) == IsNum(a) /\ IsNum(b) /\ a < b
Ne(a, b) == ~(IsNum(a) /\ IsNum(b) /\ a = b)

Abs(a) == IF a = NaN THEN NaN ELSE IF a < 0 THEN 0 - a ELSE a
Sgn(a) == IF a < 0 THEN 0 - 1 ELSE 1

\* integer division rounded to nearest, sign-symmetric (b > 0)
RoundDiv(a, b) == Sgn(a) * ((2 * Abs(a) + b) \div (2 * b))

\* float division of two fixed-point numbers, result in hundredths
FDiv(a, b) == IF a = NaN \/ b = NaN THEN NaN ELSE Sgn(b) * RoundDiv(a * 100, Abs(b))

FSub(a, b) == IF a = NaN \/ b = NaN THEN NaN ELSE a - b

\* product of two fixed-point numbers, result in hundredths
FMul(a, b) == IF a = NaN \/ b = NaN THEN NaN ELSE RoundDiv(a * b, 100)

RECURSIVE SqrtSearch(_, _, _)
SqrtSearch(x, lo, hi) ==
    IF lo >= hi THEN lo
    ELSE LET mid == (lo + hi + 1) \div 2
         IN  IF mid * mid <= x THEN SqrtSearch(x, mid, hi) ELSE SqrtSearch(x, lo, mid - 1)

\* floor of the square root of x >= 0
ISqrt(x) == SqrtSearch(x, 0, 46340)

RECURSIVE SumSeq(_)
SumSeq(s) == IF s = << >> THEN 0 ELSE Head(s) + SumSeq(Tail(s))

MaxOf(S) == CHOOSE m \in S : \A o \in S : o <= m
MinOf(S) == CHOOSE m \in S : \A o \in S : m <= o

Range(s) == {s[i] : i \in DOMAIN s}

-----------------------------------------------------------------------------
(* Schema: Summarizer.variable_groups.  A column name is the sequence of   *)
(* its '_'-separated parts, so that `'max' in c.lower()` is a membership   *)
(* test on the parts.                                                      *)

variable_groups ==
    [temperature |->
        [primary |-> <<"temperature_2m", "mean">>,
         supporting |-> << <<"temperature_2m", "min">>, <<"temperature_2m", "max">> >>,
         comparison |-> << <<"apparent_temperature", "mean">> >>],
     precipitation |->
        [primary |-> <<"precipitation", "sum">>, supporting |-> << >>, comparison |-> << >>],
     rain |->
        [primary |-> <<"rain", "sum">>, supporting |-> << >>, comparison |-> << >>],
     snow |->
        [primary |-> <<"snowfall", "sum">>, supporting |-> << >>, comparison |-> << >>],
     precipitation_hours |->
        [primary |-> <<"precipitation_hours">>, supporting |-> << >>, comparison |-> << >>],
     wind_speed |->
        [primary |-> <<"wind_speed_10m", "mean">>,
         supporting |-> << <<"wind_speed_10m", "min">>, <<"wind_speed_10m", "max">> >>,
         comparison |-> << <<"wind_gusts_10m", "mean">> >>],
     relative_humidity |->
        [primary |-> <<"relative_humidity_2m", "mean">>,
         supporting |-> << <<"relative_humidity_2m", "min">>, <<"relative_humidity_2m", "max">> >>,
         comparison |-> << >>],
     sunshine_duration |->
        [primary |-> <<"sunshine_duration">>, supporting |-> << >>, comparison |-> << >>]]

\* iteration order of the variable_groups dict (insertion order)
GroupOrder ==
    <<"temperature", "precipitation", "rain", "snow", "precipitation_hours",
      "wind_speed", "relative_humidity", "sunshine_duration">>

\* `'max' in c.lower()`
HasPart(c, part) == \E i \in DOMAIN c : c[i] = part

-----------------------------------------------------------------------------
(* Dates                                                                   *)

Date(y, m, d) == [year |-> y, month |-> m, day |-> d]

IsLeap(y) == (y % 4 = 0 /\ y % 100 # 0) \/ y % 400 = 0

DaysBefore == <<0, 31, 59, 90, 120, 151, 181, 212, 243, 273, 304, 334>>

\* pandas .dt.dayofyear
DayOfYear(d) == DaysBefore[d.month] + d.day + (IF d.month > 2 /\ IsLeap(d.year) THEN 1 ELSE 0)

\* total order of dates, for min() / max()
DateKey(d) == d.year * 10000 + d.month * 100 + d.day

-----------------------------------------------------------------------------
(* Input tables.  A table is [date |-> <<dates>>, cols |-> column name ->  *)
(* <<cell values>>], every column as long as the date column and at least  *)
(* one row (Summarizer._load_data has dropped incomplete rows).            *)

MaxRows == 3

\* row i in year i, each in the next season: winter, spring, summer, fall, ...
YearApart(n) == [i \in 1..n |-> Date(2019 + i, 1 + 3 * ((i - 1) % 4), 15)]
\* all rows in one year, each in the next season
OneYear(n) == [i \in 1..n |-> Date(2020, 1 + 3 * ((i - 1) % 4), 15)]
\* n rows on one and the same day
SameDay(n) == [i \in 1..n |-> Date(2020, 1, 15)]

\* one row more, through the four seasons from a December on: December,
\* March, August, November, December, ...
SeasonMonths == <<12, 3, 8, 11>>
Seasons(n) == [i \in 1..n |-> Date(2019 + ((i + 2) \div 4), SeasonMonths[1 + ((i - 1) % 4)], 15)]

DateSeqs ==
    {YearApart(n) : n \in 1..MaxRows} \cup {OneYear(MaxRows), SameDay(2), Seasons(MaxRows + 1)}

\* the cell values of a column of n rows
Profile(name, n) ==
    [i \in 1..n |->
        CASE name = "zero" -> 0
          [] name = "const" -> 5
          [] name = "rise" -> i
          [] name = "fall" -> n + 1 - i
          [] name = "spike" -> IF i = n THEN 6 ELSE 0
          [] name = "bump" -> IF i = n THEN 16 ELSE 10
          [] name = "zigzag" -> IF i % 3 = 1 THEN 5 ELSE IF i % 3 = 2 THEN 2 ELSE 8]

Shift(s, k) == [i \in DOMAIN s |-> s[i] + k]

Absent == "absent"

\* temperature comes with both, one or none of its supporting columns
TemperatureChoices ==
    {[profile |-> Absent, support |-> {}],
     [profile |-> "rise", support |-> {"min", "max"}],
     [profile |-> "spike", support |-> {"max"}],
     [profile |-> "const", support |-> {}]}
PrecipitationProfiles == {Absent, "fall", "zero"}
WindProfiles == {Absent, "zigzag", "bump"}
RainProfiles == {Absent, "spike"}

Col(g) == variable_groups[g].primary

\* the columns one choice of profiles puts in the table
ColumnsOf(t, p, w, r) ==
    {c \in {Col("temperature"), Col("precipitation"), Col("wind_speed"), Col("rain")} :
        \/ c = Col("temperature") /\ t.profile # Absent
        \/ c = Col("precipitation") /\ p # Absent
        \/ c = Col("wind_speed") /\ w # Absent
        \/ c = Col("rain") /\ r # Absent}
    \cup {<<"temperature_2m", k>> : k \in t.support}

MakeTable(dates, t, p, w, r) ==
    LET n == Len(dates)
    IN  [date |-> dates,
         cols |-> [c \in ColumnsOf(t, p, w, r) |->
            CASE c = Col("temperature") -> Profile(t.profile, n)
              [] c = Col("precipitation") -> Profile(p, n)
              [] c = Col("wind_speed") -> Profile(w, n)
              [] c = Col("rain") -> Profile(r, n)
              [] c = <<"temperature_2m", "min">> -> Shift(Profile(t.profile, n), 0 - 2)
              [] c = <<"temperature_2m", "max">> -> Shift(Profile(t.profile, n), 2)]]

Tables ==
    {MakeTable(d, t, p, w, r) :
        d \in DateSeqs, t \in TemperatureChoices, p \in PrecipitationProfiles,
        w \in WindProfiles, r \in RainProfiles}

\* thresholds in hundredths: the defaults of summarize.py (0.3, 0.05, 2.0), a
\* stricter r2_threshold, and that with a laxer extreme_threshold
Configs ==
    {[r2_threshold |-> t[1], p_value_threshold |-> 5, extreme_threshold |-> t[2],
      station_name |-> "unknown"] : t \in {<<30, 200>>, <<76, 200>>, <<76, 100>>}}

-----------------------------------------------------------------------------
(* pandas / scipy kernels on one column                                    *)

NRows(d) == Len(d.date)

Cents(s) == [i \in DOMAIN s |-> s[i] * 100]

\* Series.mean(), of a sequence of numbers, in the unit of the sequence
MeanOf(s) == RoundDiv(SumSeq(s), Len(s))

\* sum of the squares of n*s[i] - sum(s), that is n*n times the sum of squared deviations
SumSqDev(s) ==
    LET n == Len(s)
        t == SumSeq(s)
    IN  SumSeq([i \in DOMAIN s |-> (n * s[i] - t) * (n * s[i] - t)])

SumCoDev(a, b) ==
    LET n == Len(a)
        ta == SumSeq(a)
        tb == SumSeq(b)
    IN  SumSeq([i \in DOMAIN a |-> (n * a[i] - ta) * (n * b[i] - tb)])

\* Series.std(): sample standard deviation (ddof = 1), NaN for a single value
StdOf(s) ==
    LET n == Len(s)
    IN  IF n < 2 THEN NaN ELSE ISqrt(SumSqDev(s) \div (n * n * (n - 1)))

\* a square root kept to four significant digits: [root |-> r, scale |-> k], r ~ k * sqrt(x)
PSqrt(x) ==
    IF x < 2000 THEN [root |-> ISqrt(x * 1000000), scale |-> 1000]
    ELSE IF x < 200000 THEN [root |-> ISqrt(x * 10000), scale |-> 100]
    ELSE IF x < 20000000 THEN [root |-> ISqrt(x * 100), scale |-> 10]
    ELSE [root |-> ISqrt(x), scale |-> 1]

\* Pearson r of two sequences with non-zero variance, in hundredths, clamped to [-1, 1]
PearsonR(a, b) ==
    LET ra == PSqrt(SumSqDev(a))
        rb == PSqrt(SumSqDev(b))
        u == RoundDiv(SumCoDev(a, b) * ra.scale * 100, ra.root)
        r == RoundDiv(u * rb.scale, rb.root)
    IN  IF r > 100 THEN 100 ELSE IF r < 0 - 100 THEN 0 - 100 ELSE r

\* Series.corr(other): NaN with fewer than two rows or a constant column
CorrOf(a, b) ==
    IF Len(a) < 2 \/ SumSqDev(a) = 0 \/ SumSqDev(b) = 0 THEN NaN ELSE PearsonR(a, b)

\* a variant of idxmax that reports the last index of the maximum
IdxMax_last(s) == MaxOf({i \in DOMAIN s : \A j \in DOMAIN s : s[j] <= s[i]})

\* first index of the maximum / minimum: Series.idxmax() / idxmin()
IdxMax(s) == MinOf({i \in DOMAIN s : \A j \in DOMAIN s : s[j] <= s[i]})
IdxMin(s) == MinOf({i \in DOMAIN s : \A j \in DOMAIN s : s[i] <= s[j]})

\* the sorted sequence of a finite set of integers
RECURSIVE SortedSeq(_)
SortedSeq(S) == IF S = {} THEN << >> ELSE <<MinOf(S)>> \o SortedSeq(S \ {MinOf(S)})

\* the sub-sequence of s at the rows where keys[i] = k (one group of a groupby)
RowsWhere(s, keys, k) ==
    LET idx == SortedSeq({i \in DOMAIN s : keys[i] = k})
    IN  [j \in DOMAIN idx |-> s[idx[j]]]

-----------------------------------------------------------------------------
(* DatasetAnalyzer                                                         *)

compute_basic_info(d, station) ==
    LET keys == {DateKey(d.date[i]) : i \in DOMAIN d.date}
    IN  [start_date |-> CHOOSE x \in Range(d.date) : DateKey(x) = MinOf(keys),
         end_date |-> CHOOSE x \in Range(d.date) : DateKey(x) = MaxOf(keys),
         n_records |-> NRows(d),
         station |-> station]

summarize_primary(d, col) ==
    LET v == Cents(d.cols[col])
        mean == MeanOf(v)
        std == StdOf(v)
    IN  [mean |-> mean,
         std |-> std,
         min |-> MinOf(Range(v)),
         max |-> MaxOf(Range(v)),
         coefficient_of_variation |-> IF Ne(mean, 0) THEN FDiv(std, mean) ELSE 0]

RECURSIVE RangeInfo(_, _, _)
RangeInfo(d, cols, info) ==
    IF cols = << >> THEN info
    ELSE LET c == Head(cols)
             upd == IF c \in DOMAIN d.cols
                    THEN IF HasPart(c, "min")
                         THEN ("absolute_min" :> MinOf(Range(Cents(d.cols[c])))) @@ info
                         ELSE IF HasPart(c, "max")
                              THEN ("absolute_max" :> MaxOf(Range(Cents(d.cols[c])))) @@ info
                              ELSE info
                    ELSE info
         IN  RangeInfo(d, Tail(cols), upd)

compute_range(d, supporting_cols) ==
    IF supporting_cols = << >> THEN None
    ELSE LET range_info == RangeInfo(d, supporting_cols, EmptyDict)
         IN  IF DOMAIN range_info # {} THEN range_info ELSE None


\* df['date'].dt.year + df['date'].dt.dayofyear / 365.25, in hundredths of a year
YearNumeric(date) == date.year * 100 + RoundDiv(DayOfYear(date) * 10000, 36525)

\* p-values scipy may report for a regression on two or more distinct time points
PValues == {4, 5}

TrendRecord(slope, r, p) ==
    [slope |-> slope,
     r_value |-> r,
     r_squared |-> FMul(r, r),
     p_value |-> p,
     direction |-> IF Gt(slope, 0) THEN "increasing" ELSE "decreasing"]

ValueError == [exception |-> "ValueError"]

\* a variant of linregress that reports one p-value whatever the library
Linregress_own_p(x, y, lib) ==
    LET n == Len(x)
        sxx == SumSqDev(x)
        degenerate == TrendRecord(NaN, 0, NaN)
    IN  IF n = 1 THEN degenerate
        ELSE IF sxx = 0
        THEN (IF lib.identical_x = "raises" THEN ValueError ELSE degenerate)
        ELSE LET slope == RoundDiv(SumCoDev(x, y) * 1000, RoundDiv(sxx, 10))
                 r == IF SumSqDev(y) = 0 THEN 0 ELSE PearsonR(x, y)
             IN  TrendRecord(slope, r, 4)

\* scipy.stats.linregress(x, y) of the installed library lib.  With a single
\* row the sums of squares are 0: r is 0 and slope and p-value are NaN.  With
\* several rows that all carry the same x, the library raises ValueError
\* ("all x values are identical") or, before that check existed, returns the
\* same degenerate result.  Otherwise the p-value is the one lib reports.
Linregress(x, y, lib) ==
    LET n == Len(x)
        sxx == SumSqDev(x)
        degenerate == TrendRecord(NaN, 0, NaN)
    IN  IF n = 1 THEN degenerate
        ELSE IF sxx = 0
        THEN (IF lib.identical_x = "raises" THEN ValueError ELSE degenerate)
        ELSE LET slope == RoundDiv(SumCoDev(x, y) * 1000, RoundDiv(sxx, 10))
                 r == IF SumSqDev(y) = 0 THEN 0 ELSE PearsonR(x, y)
             IN  TrendRecord(slope, r, lib.p_value)

\* the time axis of the regression
YearNumerics(d) == [i \in DOMAIN d.date |-> YearNumeric(d.date[i])]

\* the outcome of _detect_trend: a trend dict, or the exception linregress raised
detect_trend(d, col, lib) ==
    Linregress(YearNumerics(d), d.cols[col],
               [identical_x |-> lib.identical_x, p_value |-> lib.p_value[col]])

\* a variant of the season of a month that puts December with the fall
get_season_december_fall(month) ==
    IF month \in {1, 2} THEN "winter"
    ELSE IF month \in {3, 4, 5} THEN "spring"
    ELSE IF month \in {6, 7, 8} THEN "summer"
    ELSE "fall"

get_season(month) ==
    IF month \in {12, 1, 2} THEN "winter"
    ELSE IF month \in {3, 4, 5} THEN "spring"
    ELSE IF month \in {6, 7, 8} THEN "summer"
    ELSE "fall"

compute_seasonal_patterns(d, col) ==
    LET season == [i \in DOMAIN d.date |-> get_season(d.date[i].month)]
        present == Range(season)
        seasonal == [k \in present |-> MeanOf(RowsWhere(Cents(d.cols[col]), season, k))]
        get(k) == IF k \in present THEN seasonal[k] ELSE NoneNum
    IN  IF Cardinality(present) > 0
        THEN [summer |-> get("summer"),
              winter |-> get("winter"),
              spring |-> get("spring"),
              fall |-> get("fall"),
              range |-> MaxOf(Range(seasonal)) - MinOf(Range(seasonal))]
        ELSE None

\* a variant of the yearly comparison that divides by the standard deviation
\* whatever its value
compute_yearly_comparisons_unguarded(d, col) ==
    LET year == [i \in DOMAIN d.date |-> d.date[i].year]
        years == SortedSeq(Range(year))
        yearly == [j \in DOMAIN years |-> MeanOf(RowsWhere(Cents(d.cols[col]), year, years[j]))]
        mean_val == MeanOf(yearly)
        std_val == StdOf(yearly)
        hi == IdxMax(yearly)
        lo == IdxMin(yearly)
    IN  IF Len(yearly) = 0 THEN None
        ELSE [yearly_mean |-> mean_val,
              yearly_std |-> std_val,
              highest_year |-> years[hi],
              highest_value |-> yearly[hi],
              lowest_year |-> years[lo],
              lowest_value |-> yearly[lo],
              highest_zscore |-> IF Gt(std_val, 0) THEN FDiv(yearly[hi] - mean_val, std_val) ELSE NaN,
              lowest_zscore |-> IF Gt(std_val, 0) THEN FDiv(yearly[lo] - mean_val, std_val) ELSE NaN]

compute_yearly_comparisons(d, col) ==
    LET year == [i \in DOMAIN d.date |-> d.date[i].year]
        years == SortedSeq(Range(year))
        yearly == [j \in DOMAIN years |-> MeanOf(RowsWhere(Cents(d.cols[col]), year, years[j]))]
        mean_val == MeanOf(yearly)
        std_val == StdOf(yearly)
        hi == IdxMax(yearly)
        lo == IdxMin(yearly)
    IN  IF Len(yearly) = 0 THEN None
        ELSE [yearly_mean |-> mean_val,
              yearly_std |-> std_val,
              highest_year |-> years[hi],
              highest_value |-> yearly[hi],
              lowest_year |-> years[lo],
              lowest_value |-> yearly[lo],
              highest_zscore |-> IF Gt(std_val, 0) THEN FDiv(yearly[hi] - mean_val, std_val) ELSE 0,
              lowest_zscore |-> IF Gt(std_val, 0) THEN FDiv(yearly[lo] - mean_val, std_val) ELSE 0]

\* next((c for c in cols if part in c.lower()), default)
RECURSIVE NextWith(_, _, _)
NextWith(cols, part, default) ==
    IF cols = << >> THEN default
    ELSE IF HasPart(Head(cols), part) THEN Head(cols)
    ELSE NextWith(Tail(cols), part, default)

identify_extremes(d, primary_col, supporting_cols) ==
    LET max_col == NextWith(supporting_cols, "max", primary_col)
        min_col == NextWith(supporting_cols, "min", primary_col)
        highest == IF max_col \in DOMAIN d.cols
                   THEN LET max_idx == IdxMax(d.cols[max_col])
                        IN  "highest" :> [value |-> d.cols[max_col][max_idx] * 100,
                                          date |-> d.date[max_idx]]
                   ELSE EmptyDict
        lowest == IF min_col \in DOMAIN d.cols
                  THEN LET min_idx == IdxMin(d.cols[min_col])
                       IN  "lowest" :> [value |-> d.cols[min_col][min_idx] * 100,
                                        date |-> d.date[min_idx]]
                  ELSE EmptyDict
        extremes == lowest @@ highest
    IN  IF DOMAIN extremes # {} THEN extremes ELSE None

RealFeelThreshold == 500

RECURSIVE OptionalFeatures(_, _, _, _)
OptionalFeatures(d, primary_col, cols, features) ==
    IF cols = << >> THEN features
    ELSE LET c == Head(cols)
         IN  IF c \notin DOMAIN d.cols
             THEN OptionalFeatures(d, primary_col, Tail(cols), features)
             ELSE LET delta == [i \in DOMAIN d.date |->
                                    (d.cols[c][i] - d.cols[primary_col][i]) * 100]
                      diff == MeanOf([i \in DOMAIN delta |-> Abs(delta[i])])
                      upd == IF diff > RealFeelThreshold
                             THEN ("real_feel_diff" :>
                                      [avg_difference |-> diff,
                                       is_negative |-> MeanOf(delta) < 0]) @@ features
                             ELSE features
                  IN  OptionalFeatures(d, primary_col, Tail(cols), upd)

analyze_optional_features(d, primary_col, comparison_cols) ==
    LET features == OptionalFeatures(d, primary_col, comparison_cols, EmptyDict)
    IN  IF DOMAIN features # {} THEN features ELSE None

\* the bundle analyze() stores for one group, given the trend _detect_trend returned
GroupBundle(d, group_config, trend) ==
    [summary |-> summarize_primary(d, group_config.primary),
     range |-> compute_range(d, group_config.supporting),
     trend |-> trend,
     seasonal |-> compute_seasonal_patterns(d, group_config.primary),
     yearly |-> compute_yearly_comparisons(d, group_config.primary),
     extremes |-> identify_extremes(d, group_config.primary, group_config.supporting),
     optional_features |->
        analyze_optional_features(d, group_config.primary, group_config.comparison)]


\* dict.get(key, default) and dict.get(key)
GetOr(d, k, default) == IF k \in DOMAIN d THEN d[k] ELSE default
Get(d, k) == GetOr(d, k, None)

StrongTrendR2 == 30
MostVariableCv == 50
StrongCorrelation == 50

\* list.sort(key = r_squared, reverse = True) is stable: x goes behind every
\* element whose r_squared is not smaller
RECURSIVE InsertByR2(_, _)
InsertByR2(sorted, x) ==
    IF sorted = << >> THEN <<x>>
    ELSE IF Head(sorted).r_squared >= x.r_squared
         THEN <<Head(sorted)>> \o InsertByR2(Tail(sorted), x)
         ELSE <<x>> \o sorted

RECURSIVE SortByR2(_, _)
SortByR2(list, sorted) ==
    IF list = << >> THEN sorted ELSE SortByR2(Tail(list), InsertByR2(sorted, Head(list)))

\* a variant of the slice that keeps one element more
Take_one_more(s, k) == SubSeq(s, 1, IF Len(s) < k + 1 THEN Len(s) ELSE k + 1)

\* list[:k]
Take(s, k) == SubSeq(s, 1, IF Len(s) < k THEN Len(s) ELSE k)

RECURSIVE TrendingVars(_, _)
TrendingVars(res, names) ==
    IF names = << >> THEN << >>
    ELSE LET var_name == Head(names)
             rest == TrendingVars(res, Tail(names))
         IN  IF var_name \in DOMAIN res /\ Truthy(Get(res[var_name], "trend"))
                /\ Gt(res[var_name].trend.r_squared, StrongTrendR2)
             THEN <<[name |-> var_name,
                     r_squared |-> res[var_name].trend.r_squared,
                     direction |-> res[var_name].trend.direction,
                     slope |-> res[var_name].trend.slope]>> \o rest
             ELSE rest

\* max(variability.items(), key = cv): the first item no later item exceeds
RECURSIVE MostVariable(_, _, _)
MostVariable(res, names, best) ==
    IF names = << >> THEN best
    ELSE LET var_name == Head(names)
         IN  IF var_name \in DOMAIN res /\ Truthy(Get(res[var_name], "summary"))
             THEN LET cv == res[var_name].summary.coefficient_of_variation
                      item == [variable |-> var_name, cv |-> cv]
                  IN  MostVariable(res, Tail(names),
                                   IF best = None \/ Gt(cv, best.cv) THEN item ELSE best)
             ELSE MostVariable(res, Tail(names), best)

\* a variant of the key that names the later group first
PairKey_reversed(a, b) == b \o "_and_" \o a

\* f'{a}_and_{b}'
PairKey(a, b) == a \o "_and_" \o b

\* the correlations dict, as the list of its items in insertion order
RECURSIVE Correlations(_, _, _, _)
Correlations(d, res, i, j) ==
    LET n == Len(GroupOrder)
    IN  IF i > n THEN << >>
        ELSE IF j > n THEN Correlations(d, res, i + 1, i + 2)
        ELSE LET a == GroupOrder[i]
                 b == GroupOrder[j]
                 rest == Correlations(d, res, i, j + 1)
                 i_col == variable_groups[a].primary
                 j_col == variable_groups[b].primary
             IN  IF a \in DOMAIN res /\ b \in DOMAIN res
                    /\ i_col \in DOMAIN d.cols /\ j_col \in DOMAIN d.cols
                 THEN LET corr == CorrOf(d.cols[i_col], d.cols[j_col])
                      IN  IF Gt(Abs(corr), StrongCorrelation)
                          THEN <<[key |-> PairKey(a, b),
                                  correlation |-> corr,
                                  relationship |-> IF Lt(corr, 0) THEN "inverse"
                                                   ELSE "direct"]>> \o rest
                          ELSE rest
                 ELSE rest

detect_cross_variable_patterns(d, res) ==
    LET trending_vars == SortByR2(TrendingVars(res, GroupOrder), << >>)
        most_variable == MostVariable(res, GroupOrder, None)
        p1 == IF trending_vars # << >>
              THEN "strongest_trends" :> Take(trending_vars, 2)
              ELSE EmptyDict
        p2 == IF most_variable # None /\ Gt(most_variable.cv, MostVariableCv)
              THEN "most_variable" :> most_variable
              ELSE EmptyDict
        p3 == "correlations" :> Correlations(d, res, 1, 2)
    IN  p1 @@ p2 @@ p3

-----------------------------------------------------------------------------
(* ContentPlanner                                                          *)

Fact(kind, data) == [kind |-> kind, data |-> data]

\* a variant of the trend test that leaves out r_squared equal to the threshold
is_trend_significant_strict(cfg, trend_stats) ==
    IF ~Truthy(trend_stats) THEN FALSE
    ELSE /\ Gt(trend_stats.r_squared, cfg.r2_threshold)
         /\ Lt(trend_stats.p_value, cfg.p_value_threshold)

\* a variant of the trend test that asks for r_squared at most the threshold
is_trend_significant_inverted(cfg, trend_stats) ==
    IF ~Truthy(trend_stats) THEN FALSE
    ELSE /\ Ge(cfg.r2_threshold, trend_stats.r_squared)
         /\ Lt(trend_stats.p_value, cfg.p_value_threshold)

is_trend_significant(cfg, trend_stats) ==
    IF ~Truthy(trend_stats) THEN FALSE
    ELSE /\ Ge(trend_stats.r_squared, cfg.r2_threshold)
         /\ Lt(trend_stats.p_value, cfg.p_value_threshold)

\* a variant of the yearly test that leaves out z-scores equal to the threshold
is_yearly_comparison_notable_strict(cfg, yearly_stats) ==
    IF ~Truthy(yearly_stats) THEN FALSE
    ELSE \/ Gt(Abs(yearly_stats.highest_zscore), cfg.extreme_threshold)
         \/ Gt(Abs(yearly_stats.lowest_zscore), cfg.extreme_threshold)

is_yearly_comparison_notable(cfg, yearly_stats) ==
    IF ~Truthy(yearly_stats) THEN FALSE
    ELSE \/ Ge(Abs(yearly_stats.highest_zscore), cfg.extreme_threshold)
         \/ Ge(Abs(yearly_stats.lowest_zscore), cfg.extreme_threshold)

HighVariabilityCv == 60

\* a variant of the secondary test that takes a coefficient of variation
\* equal to the limit as notable
is_variable_notable_lax(cfg, var_stats) ==
    IF ~Truthy(var_stats) THEN FALSE
    ELSE IF Ge(var_stats.summary.coefficient_of_variation, HighVariabilityCv) THEN TRUE
    ELSE IF Gt(GetOr(GetOr(var_stats, "trend", EmptyDict), "r_squared", 0), cfg.r2_threshold)
         THEN TRUE
    ELSE LET yearly == GetOr(var_stats, "yearly", EmptyDict)
         IN  Truthy(yearly) /\ Gt(Abs(GetOr(yearly, "highest_zscore", 0)), cfg.extreme_threshold)

is_variable_notable(cfg, var_stats) ==
    IF ~Truthy(var_stats) THEN FALSE
    ELSE IF Gt(var_stats.summary.coefficient_of_variation, HighVariabilityCv) THEN TRUE
    ELSE IF Gt(GetOr(GetOr(var_stats, "trend", EmptyDict), "r_squared", 0), cfg.r2_threshold)
         THEN TRUE
    ELSE LET yearly == GetOr(var_stats, "yearly", EmptyDict)
         IN  Truthy(yearly) /\ Gt(Abs(GetOr(yearly, "highest_zscore", 0)), cfg.extreme_threshold)

PrimaryVars == <<"temperature", "precipitation">>

SecondaryVars ==
    <<"wind_speed", "relative_humidity", "rain", "snow", "precipitation_hours",
      "sunshine_duration">>

\* a variant of the loop body that appends the extremes before the yearly
\* comparison
PrimaryFacts_extremes_first(cfg, st, primary_var) ==
    IF primary_var \notin DOMAIN st THEN << >>
    ELSE LET b == st[primary_var]
         IN  <<Fact(primary_var \o "_summary", b)>>
             \o (IF is_trend_significant(cfg, Get(b, "trend"))
                 THEN <<Fact(primary_var \o "_trend", b.trend)>> ELSE << >>)
             \o (IF Truthy(Get(b, "seasonal"))
                 THEN <<Fact(primary_var \o "_seasonal", b.seasonal)>> ELSE << >>)
             \o (IF Truthy(Get(b, "extremes"))
                 THEN <<Fact(primary_var \o "_extremes", b.extremes)>> ELSE << >>)
             \o (IF is_yearly_comparison_notable(cfg, Get(b, "yearly"))
                 THEN <<Fact(primary_var \o "_yearly", b.yearly)>> ELSE << >>)

\* a variant of the loop body that appends the extremes fact whatever the
\* sub-bundle
PrimaryFacts_extremes_always(cfg, st, primary_var) ==
    IF primary_var \notin DOMAIN st THEN << >>
    ELSE LET b == st[primary_var]
         IN  <<Fact(primary_var \o "_summary", b)>>
             \o (IF is_trend_significant(cfg, Get(b, "trend"))
                 THEN <<Fact(primary_var \o "_trend", b.trend)>> ELSE << >>)
             \o (IF Truthy(Get(b, "seasonal"))
                 THEN <<Fact(primary_var \o "_seasonal", b.seasonal)>> ELSE << >>)
             \o (IF is_yearly_comparison_notable(cfg, Get(b, "yearly"))
                 THEN <<Fact(primary_var \o "_yearly", b.yearly)>> ELSE << >>)
             \o <<Fact(primary_var \o "_extremes", b.extremes)>>

\* the facts one iteration of the primary-variable loop appends
PrimaryFacts(cfg, st, primary_var) ==
    IF primary_var \notin DOMAIN st THEN << >>
    ELSE LET b == st[primary_var]
         IN  <<Fact(primary_var \o "_summary", b)>>
             \o (IF is_trend_significant(cfg, Get(b, "trend"))
                 THEN <<Fact(primary_var \o "_trend", b.trend)>> ELSE << >>)
             \o (IF Truthy(Get(b, "seasonal"))
                 THEN <<Fact(primary_var \o "_seasonal", b.seasonal)>> ELSE << >>)
             \o (IF is_yearly_comparison_notable(cfg, Get(b, "yearly"))
                 THEN <<Fact(primary_var \o "_yearly", b.yearly)>> ELSE << >>)
             \o (IF Truthy(Get(b, "extremes"))
                 THEN <<Fact(primary_var \o "_extremes", b.extremes)>> ELSE << >>)

RECURSIVE PrimaryLoop(_, _, _)
PrimaryLoop(cfg, st, names) ==
    IF names = << >> THEN << >>
    ELSE PrimaryFacts(cfg, st, Head(names)) \o PrimaryLoop(cfg, st, Tail(names))

\* the list secondary_vars: (var, stats[var]) of every notable secondary variable
RECURSIVE NotableSecondary(_, _, _)
NotableSecondary(cfg, st, names) ==
    IF names = << >> THEN << >>
    ELSE LET var == Head(names)
             rest == NotableSecondary(cfg, st, Tail(names))
         IN  IF var \in DOMAIN st /\ is_variable_notable(cfg, st[var])
             THEN <<[name |-> var, stats |-> st[var]]>> \o rest
             ELSE rest

\* the loop over the correlations dict: max_corr starts at 0, max_corr_vars at {}
RECURSIVE MaxCorrVars(_, _, _)
MaxCorrVars(items, max_corr, max_corr_vars) ==
    IF items = << >> THEN max_corr_vars
    ELSE LET it == Head(items)
         IN  IF Gt(it.correlation, max_corr)
             THEN MaxCorrVars(Tail(items), it.correlation,
                              [variables |-> it.key,
                               correlation |-> it.correlation,
                               relationship |-> it.relationship])
             ELSE MaxCorrVars(Tail(items), max_corr, max_corr_vars)

\* a variant of the pattern facts that drops an empty pattern_correlation
PatternFacts_if_any(st) ==
    IF Truthy(Get(st, "patterns"))
    THEN (IF GetOr(st.patterns, "strongest_trends", << >>) # << >>
          THEN <<Fact("pattern_trends", st.patterns.strongest_trends)>> ELSE << >>)
         \o (IF MaxCorrVars(st.patterns.correlations, 0, EmptyDict) # EmptyDict
             THEN <<Fact("pattern_correlation",
                         MaxCorrVars(st.patterns.correlations, 0, EmptyDict))>>
             ELSE << >>)
    ELSE << >>

\* a variant of the pattern facts that appends pattern_trends whatever the list
PatternFacts_always(st) ==
    IF Truthy(Get(st, "patterns"))
    THEN <<Fact("pattern_trends", GetOr(st.patterns, "strongest_trends", << >>))>>
         \o <<Fact("pattern_correlation", MaxCorrVars(st.patterns.correlations, 0, EmptyDict))>>
    ELSE << >>

PatternFacts(st) ==
    IF Truthy(Get(st, "patterns"))
    THEN (IF GetOr(st.patterns, "strongest_trends", << >>) # << >>
          THEN <<Fact("pattern_trends", st.patterns.strongest_trends)>> ELSE << >>)
         \o <<Fact("pattern_correlation", MaxCorrVars(st.patterns.correlations, 0, EmptyDict))>>
    ELSE << >>

select_content(cfg, st) ==
    LET secondary_vars == NotableSecondary(cfg, st, SecondaryVars)
    IN  <<Fact("overview", st.basic)>>
        \o PrimaryLoop(cfg, st, PrimaryVars)
        \o (IF secondary_vars # << >> THEN <<Fact("other_conditions", secondary_vars)>>
            ELSE << >>)
        \o PatternFacts(st)


-----------------------------------------------------------------------------
(* Lexicalizer                                                             *)

\* a variant of describe_trend whose tiers take in their breakpoints
describe_trend_lax(slope, r_squared, var_type) ==
    IF Lt(r_squared, 20) THEN "remained relatively stable"
    ELSE LET magnitude == Abs(slope)
             direction == IF Gt(slope, 0) THEN "increasing" ELSE "decreasing"
         IN  IF var_type = "temperature"
             THEN LET strength == IF Ge(magnitude, 50) THEN "significant"
                                  ELSE IF Ge(magnitude, 20) THEN "moderate"
                                  ELSE "slight"
                  IN  "showed " \o strength \o " " \o direction
             ELSE IF var_type = "precipitation"
             THEN LET strength == IF Ge(magnitude, 200) THEN "substantially"
                                  ELSE IF Ge(magnitude, 100) THEN "moderately"
                                  ELSE "slightly"
                  IN  strength \o " " \o direction
             ELSE IF Gt(slope, 0) THEN "increased" ELSE "decreased"

\* a variant of describe_trend that calls every trend stable
describe_trend_stable(slope, r_squared, var_type) == "remained relatively stable"

describe_trend(slope, r_squared, var_type) ==
    IF Lt(r_squared, 20) THEN "remained relatively stable"
    ELSE LET magnitude == Abs(slope)
             direction == IF Gt(slope, 0) THEN "increasing" ELSE "decreasing"
         IN  IF var_type = "temperature"
             THEN LET strength == IF Gt(magnitude, 50) THEN "significant"
                                  ELSE IF Gt(magnitude, 20) THEN "moderate"
                                  ELSE "slight"
                  IN  "showed " \o strength \o " " \o direction
             ELSE IF var_type = "precipitation"
             THEN LET strength == IF Gt(magnitude, 200) THEN "substantially"
                                  ELSE IF Gt(magnitude, 100) THEN "moderately"
                                  ELSE "slightly"
                  IN  strength \o " " \o direction
             ELSE IF Gt(slope, 0) THEN "increased" ELSE "decreased"

MonthName ==
    <<"January", "February", "March", "April", "May", "June", "July", "August",
      "September", "October", "November", "December">>

TwoDigits(n) == IF n < 10 THEN "0" \o ToString(n) ELSE ToString(n)

\* date.strftime("%B %d, %Y")
format_date(date) ==
    MonthName[date.month] \o " " \o TwoDigits(date.day) \o ", " \o ToString(date.year)

-----------------------------------------------------------------------------
(* TemplateRealizer                                                        *)

Lit(text) == [lit |-> text]
\* a replacement field {key:conv}; conv "s" and "d" are the empty format spec
\* applied to a string and to an integer
Field(key, conv) == [key |-> key, conv |-> conv]

templates ==
    [overview |->
        << <<Lit("This analysis covers daily weather observations from "),
             Field("station", "s"), Lit(", spanning "), Field("start_date", "s"),
             Lit(" to "), Field("end_date", "s"), Lit(".")>> >>,
     temperature_summary |->
        << <<Lit("Temperatures averaged "), Field("mean", ".1f"), Lit("C, ranging from "),
             Field("absolute_min", ".1f"), Lit("C to "), Field("absolute_max", ".1f"),
             Lit("C.")>>,
           <<Lit("Over this period, temperatures ranged from "),
             Field("absolute_min", ".1f"), Lit("C to "), Field("absolute_max", ".1f"),
             Lit("C, with a mean of "), Field("mean", ".1f"), Lit("C.")>> >>,
     temperature_trend |->
        << <<Lit("Temperature "), Field("trend_desc", "s"),
             Lit(" over the study period.")>> >>,
     temperature_seasonal |->
        << <<Lit("Seasonally, summer months averaged "), Field("summer", ".1f"),
             Lit("C while winter months averaged "), Field("winter", ".1f"),
             Lit("C, showing a "), Field("range", ".1f"),
             Lit("C seasonal variation.")>> >>,
     temperature_yearly |->
        << <<Field("highest_year", "d"), Lit(" was the warmest year at "),
             Field("highest_value", ".1f"), Lit("C, while "), Field("lowest_year", "d"),
             Lit(" was the coolest at "), Field("lowest_value", ".1f"), Lit("C.")>> >>,
     temperature_extremes |->
        << <<Lit("The hottest temperature recorded was "), Field("highest_value", ".1f"),
             Lit("C on "), Field("highest_date", "s"), Lit(", and the coldest was "),
             Field("lowest_value", ".1f"), Lit("C on "), Field("lowest_date", "s"),
             Lit(".")>> >>,
     precipitation_summary |->
        << <<Lit("Precipitation totaled "), Field("total", ".1f"),
             Lit(" mm over the period, averaging "), Field("annual_avg", ".1f"),
             Lit(" mm annually.")>>,
           <<Lit("Annual precipitation averaged "), Field("annual_avg", ".1f"),
             Lit(" mm, with a total of "), Field("total", ".1f"),
             Lit(" mm recorded.")>> >>,
     precipitation_trend |->
        << <<Lit("Precipitation "), Field("trend_desc", "s"), Lit(" over time.")>> >>,
     precipitation_extremes |->
        << <<Lit("The heaviest single-day precipitation was "),
             Field("highest_value", ".2f"), Lit(" mm on "), Field("highest_date", "s"),
             Lit(".")>> >>,
     other_conditions_combined |->
        << <<Lit("Other conditions included "), Field("conditions_desc", "s"),
             Lit(".")>> >>,
     pattern_trends_multi |->
        << <<Lit("Notably, "), Field("var1", "s"), Lit(" and "), Field("var2", "s"),
             Lit(" both showed strong trends over the period.")>> >>,
     pattern_correlation |->
        << <<Lit("The variables "), Field("vars", "s"),
             Lit(" were the strongest correlated, having a "),
             Field("relationship", "s"), Lit(" relationship.")>> >>]

KeyError == [exception |-> "KeyError"]
TypeError == [exception |-> "TypeError"]
IndexError == [exception |-> "IndexError"]

IsException(x) == "exception" \in DOMAIN x

\* format(v, '.1f') and format(v, '.2f') of a number in hundredths
Fixed1(v) ==
    IF v = NaN THEN "nan"
    ELSE LET t == RoundDiv(Abs(v), 10)
         IN  (IF v < 0 THEN "-" ELSE "") \o ToString(t \div 10) \o "."
             \o ToString(t % 10)

Fixed2(v) ==
    IF v = NaN THEN "nan"
    ELSE (IF v < 0 THEN "-" ELSE "") \o ToString(Abs(v) \div 100) \o "."
         \o TwoDigits(Abs(v) % 100)

\* str.format of one replacement field: the text, or the exception it raises
FormatField(formatted, f) ==
    IF f.key \notin DOMAIN formatted THEN KeyError
    ELSE LET v == formatted[f.key]
         IN  CASE f.conv = "s" -> [text |-> v]
               [] f.conv = "d" -> [text |-> ToString(v)]
               [] f.conv = ".1f" -> IF v = NoneNum THEN TypeError ELSE [text |-> Fixed1(v)]
               [] f.conv = ".2f" -> IF v = NoneNum THEN TypeError ELSE [text |-> Fixed2(v)]

\* template.format(**formatted), fields left to right: the token sequence of
\* the sentence, or the first exception raised
RECURSIVE Format(_, _, _)
Format(template, formatted, done) ==
    IF template = << >> THEN [text |-> done]
    ELSE LET part == Head(template)
         IN  IF "lit" \in DOMAIN part
             THEN Format(Tail(template), formatted, Append(done, part.lit))
             ELSE LET r == FormatField(formatted, part)
                  IN  IF IsException(r) THEN r
                      ELSE Format(Tail(template), formatted, Append(done, r.text))

SpacedName ==
    [temperature |-> "temperature", precipitation |-> "precipitation", rain |-> "rain",
     snow |-> "snow", precipitation_hours |-> "precipitation hours",
     wind_speed |-> "wind speed", relative_humidity |-> "relative humidity",
     sunshine_duration |-> "sunshine duration"]

GroupNames == Range(GroupOrder)

\* key.replace('_', ' ') of a correlation key f'{a}_and_{b}'
ReplaceUnderscores(key) ==
    LET ab == CHOOSE ab \in GroupNames \X GroupNames : key = PairKey(ab[1], ab[2])
    IN  SpacedName[ab[1]] \o " and " \o SpacedName[ab[2]]

\* `part in fact_type` for the fact kinds f'{var}_{part}' of the planner
KindHas(fact_type, part) == \E v \in Range(PrimaryVars) : fact_type = v \o "_" \o part

\* isinstance(data, dict): every payload but the two lists
IsDict(fact_type) == fact_type \notin {"other_conditions", "pattern_trends"}

\* a variant of the derived fields whose total defaults to a single record
prepare_data_one_record(fact_type, data) ==
    IF fact_type = "precipitation_summary"
    THEN ("total" :> data.summary.mean * GetOr(data, "n_records", 1))
         @@ ("annual_avg" :> RoundDiv(data.summary.mean * 36525, 100)) @@ data
    ELSE IF IsDict(fact_type) THEN data ELSE EmptyDict

\* _prepare_data: the dict formatted, or the exception raised on the way
prepare_data(fact_type, data) ==
    LET f0 == IF IsDict(fact_type) THEN data ELSE EmptyDict
        f1 == IF "start_date" \in DOMAIN f0
              THEN ("start_date" :> format_date(f0.start_date)) @@ f0 ELSE f0
        f2 == IF "end_date" \in DOMAIN f1
              THEN ("end_date" :> format_date(f1.end_date)) @@ f1 ELSE f1
        f3 == IF fact_type = "temperature_summary"
              THEN (IF "range" \in DOMAIN data /\ Truthy(data.range)
                    THEN ("absolute_min" :> GetOr(data.range, "absolute_min", data.summary.min))
                         @@ ("absolute_max" :> GetOr(data.range, "absolute_max", data.summary.max))
                    ELSE ("absolute_min" :> data.summary.min)
                         @@ ("absolute_max" :> data.summary.max))
                   @@ ("mean" :> data.summary.mean) @@ f2
              ELSE f2
        f4 == IF fact_type = "temperature_trend"
              THEN ("trend_desc" :> describe_trend(data.slope, data.r_squared, "temperature"))
                   @@ f3
              ELSE f3
        f5 == IF fact_type = "precipitation_summary"
              THEN ("total" :> data.summary.mean * GetOr(f4, "n_records", 1826))
                   @@ ("annual_avg" :> RoundDiv(data.summary.mean * 36525, 100)) @@ f4
              ELSE f4
        f6 == IF fact_type = "precipitation_trend"
              THEN ("trend_desc" :> describe_trend(data.slope, data.r_squared, "precipitation"))
                   @@ f5
              ELSE f5
        f7 == IF KindHas(fact_type, "extremes")
              THEN (IF "highest" \in DOMAIN data
                    THEN ("highest_value" :> data.highest.value)
                         @@ ("highest_date" :> format_date(data.highest.date))
                    ELSE EmptyDict)
                   @@ (IF "lowest" \in DOMAIN data
                       THEN ("lowest_value" :> data.lowest.value)
                            @@ ("lowest_date" :> format_date(data.lowest.date))
                       ELSE EmptyDict)
                   @@ f6
              ELSE f6
    IN  IF fact_type = "pattern_correlation"
        THEN IF "correlation" \notin DOMAIN data \/ "relationship" \notin DOMAIN data
                \/ "variables" \notin DOMAIN data
             THEN KeyError
             ELSE ("relationship" :> (IF data.relationship = "inverse" THEN "inverse"
                                      ELSE "positive"))
                  @@ ("vars" :> ReplaceUnderscores(data.variables)) @@ f7
        ELSE f7

\* realize with the template random.choice picked: the sentence, or the exception
realize_with(fact_type, data, template) ==
    LET formatted == prepare_data(fact_type, data)
    IN  IF IsException(formatted) THEN formatted
        ELSE LET r == Format(template, formatted, << >>)
             IN  IF r = KeyError THEN [text |-> << >>] ELSE r

\* a variant of realize that looks the kind up without the membership test
realize_unchecked(fact_type, data) ==
    IF fact_type \notin DOMAIN templates THEN {KeyError}
    ELSE {realize_with(fact_type, data, templates[fact_type][k]) :
            k \in DOMAIN templates[fact_type]}

\* the outcomes of realize(fact_type, data), one for each choice of template
realize(fact_type, data) ==
    IF fact_type \notin DOMAIN templates THEN {[text |-> << >>]}
    ELSE {realize_with(fact_type, data, templates[fact_type][k]) :
            k \in DOMAIN templates[fact_type]}

\* the description of one secondary variable, as tokens
Describe(var_name, var_data) ==
    LET mean_val == Fixed1(var_data.summary.mean)
    IN  CASE var_name = "wind_speed" -> <<"wind speed averaging ", mean_val, " kmh">>
          [] var_name = "rain" -> <<"rain averaging ", mean_val, " mm">>
          [] var_name = "snow" -> <<"snow averaging ", mean_val, " cm">>
          [] var_name = "relative_humidity" ->
                <<"relative humidity averaging ", mean_val, "%">>
          [] OTHER -> <<SpacedName[var_name], " averaging ", mean_val>>

\* sep.join(list) of token sequences
RECURSIVE JoinWith(_, _)
JoinWith(sep, list) ==
    IF list = << >> THEN << >>
    ELSE IF Len(list) = 1 THEN list[1]
    ELSE list[1] \o <<sep>> \o JoinWith(sep, Tail(list))

\* a variant of the combined sentence without the comma before the last 'and'
realize_combined_conditions_no_comma(secondary_vars) ==
    LET descriptions == [i \in DOMAIN secondary_vars |->
                            Describe(secondary_vars[i].name, secondary_vars[i].stats)]
        n == Len(descriptions)
    IN  IF n = 1
        THEN [text |-> <<"Other conditions included ">> \o descriptions[1] \o <<".">>]
        ELSE IF n = 2
        THEN [text |-> <<"Other conditions included ">> \o descriptions[1] \o <<" and ">>
                       \o descriptions[2] \o <<".">>]
        ELSE IF n = 0 THEN IndexError
        ELSE [text |-> <<"Other conditions included ">>
                       \o JoinWith(", ", SubSeq(descriptions, 1, n - 1))
                       \o <<" and ">> \o descriptions[n] \o <<".">>]

realize_combined_conditions(secondary_vars) ==
    LET descriptions == [i \in DOMAIN secondary_vars |->
                            Describe(secondary_vars[i].name, secondary_vars[i].stats)]
        n == Len(descriptions)
    IN  IF n = 1
        THEN [text |-> <<"Other conditions included ">> \o descriptions[1] \o <<".">>]
        ELSE IF n = 2
        THEN [text |-> <<"Other conditions included ">> \o descriptions[1] \o <<" and ">>
                       \o descriptions[2] \o <<".">>]
        ELSE IF n = 0 THEN IndexError
        ELSE [text |-> <<"Other conditions included ">>
                       \o JoinWith(", ", SubSeq(descriptions, 1, n - 1))
                       \o <<", and ">> \o descriptions[n] \o <<".">>]


-----------------------------------------------------------------------------
(* Summarizer.generate_summary, step by step                               *)

\* the columns analyze() runs a regression on
RegressedColumns(d) ==
    {variable_groups[g].primary : g \in Range(GroupOrder)} \cap DOMAIN d.cols

\* the columns whose p-value the Planner reads: the primary variables'
SignificanceColumns == {variable_groups[v].primary : v \in Range(PrimaryVars)}

\* the libraries that differ on the table d: what linregress does with
\* identical x values, where d has them, and the p-value it reports for each
\* regressed column, where the regression has one; the p-values nothing reads
\* are left at one value
Libraries(d) ==
    LET x == YearNumerics(d)
        identical == Len(x) >= 2 /\ SumSqDev(x) = 0
        regular == Len(x) >= 2 /\ SumSqDev(x) # 0
        reported(c) == IF ~regular THEN {NaN}
                       ELSE IF c \in SignificanceColumns THEN PValues
                       ELSE {CHOOSE p \in PValues : \A q \in PValues : p <= q}
    IN  {[identical_x |-> b, p_value |-> f] :
            b \in (IF identical THEN {"raises", "nan"} ELSE {"raises"}),
            f \in {g \in [RegressedColumns(d) -> PValues \cup {NaN}] :
                     \A c \in RegressedColumns(d) : g[c] \in reported(c)}}

Init ==
    /\ config \in Configs
    /\ df \in Tables
    /\ scipy \in Libraries(df)
    /\ pc = "analyze"
    /\ gi = 0
    /\ results = EmptyDict
    /\ stats = EmptyDict
    /\ content = << >>
    /\ fi = 0
    /\ sentences = << >>
    /\ summary = << >>
    /\ error = ""

\* an exception nobody catches ends the run
Raise(e) ==
    /\ pc' = "raised"
    /\ error' = e.exception

\* analyze(): results = {'basic': ...}
ComputeBasicInfo ==
    /\ pc = "analyze"
    /\ results' = ("basic" :> compute_basic_info(df, config.station_name))
    /\ gi' = 1
    /\ pc' = "groups"
    /\ UNCHANGED <<scipy, config, df, stats, content, fi, sentences, summary, error>>

\* a variant of the loop step that leaves the loop after the second group
NextGroup_early ==
    /\ gi' = gi + 1
    /\ pc' = IF gi >= 2 THEN "patterns" ELSE "groups"

NextGroup ==
    /\ gi' = gi + 1
    /\ pc' = IF gi = Len(GroupOrder) THEN "patterns" ELSE "groups"

\* one iteration of the loop over variable_groups, primary column in the table
AnalyzeGroup ==
    /\ pc = "groups"
    /\ LET group_name == GroupOrder[gi]
           group_config == variable_groups[group_name]
       IN  /\ group_config.primary \in DOMAIN df.cols
           /\ LET trend == detect_trend(df, group_config.primary, scipy)
              IN  /\ ~IsException(trend)
                  /\ results' = (group_name :> GroupBundle(df, group_config, trend))
                                 @@ results
    /\ NextGroup
    /\ UNCHANGED <<scipy, config, df, stats, content, fi, sentences, summary, error>>

\* the same iteration when linregress raises: analyze() has no handler
AnalyzeGroupRaises ==
    /\ pc = "groups"
    /\ LET group_config == variable_groups[GroupOrder[gi]]
       IN  /\ group_config.primary \in DOMAIN df.cols
           /\ LET trend == detect_trend(df, group_config.primary, scipy)
              IN  /\ IsException(trend)
                  /\ Raise(trend)
    /\ UNCHANGED <<scipy, config, df, gi, results, stats, content, fi, sentences, summary>>

\* a variant of the skipped iteration that leaves an empty bundle behind
SkipGroup_stub ==
    /\ pc = "groups"
    /\ variable_groups[GroupOrder[gi]].primary \notin DOMAIN df.cols
    /\ results' = (GroupOrder[gi] :> EmptyDict) @@ results
    /\ NextGroup
    /\ UNCHANGED <<scipy, config, df, stats, content, fi, sentences, summary, error>>

\* one iteration of the loop, primary column not in the table
SkipGroup ==
    /\ pc = "groups"
    /\ variable_groups[GroupOrder[gi]].primary \notin DOMAIN df.cols
    /\ NextGroup
    /\ UNCHANGED <<scipy, config, df, results, stats, content, fi, sentences, summary, error>>

\* results['patterns'] = ...; return results; stats = analyzer.analyze()
DetectPatterns ==
    /\ pc = "patterns"
    /\ results' = ("patterns" :> detect_cross_variable_patterns(df, results)) @@ results
    /\ stats' = results'
    /\ pc' = "plan"
    /\ UNCHANGED <<scipy, config, df, gi, content, fi, sentences, summary, error>>

\* a variant of the planner that pops the patterns it has read
StatsAfterSelect_pop(st) == [k \in DOMAIN st \ {"patterns"} |-> st[k]]

\* what select_content leaves in self.stats: it assigns nothing to it
StatsAfterSelect(st) == st

\* content = planner.select_content()
SelectContent ==
    /\ pc = "plan"
    /\ content' = select_content(config, stats)
    /\ stats' = StatsAfterSelect(stats)
    /\ fi' = 1
    /\ pc' = "realize"
    /\ UNCHANGED <<scipy, config, df, gi, results, sentences, summary, error>>

\* the outcomes of the loop body for one fact
RealizeFact(fact) ==
    IF fact.kind = "other_conditions" THEN {realize_combined_conditions(fact.data)}
    ELSE realize(fact.kind, fact.data)

\* a variant of the loop body that appends the empty sentence too
AppendSentence_always(list, sentence) == Append(list, sentence)

\* sentences after the loop body: `if sentence: sentences.append(sentence)`
AppendSentence(list, sentence) == IF sentence # << >> THEN Append(list, sentence) ELSE list

\* one iteration of the loop over content
Realize ==
    /\ pc = "realize"
    /\ fi <= Len(content)
    /\ \E r \in RealizeFact(content[fi]) :
        /\ ~IsException(r)
        /\ sentences' = AppendSentence(sentences, r.text)
    /\ fi' = fi + 1
    /\ UNCHANGED <<scipy, config, df, pc, gi, results, stats, content, summary, error>>

\* the same iteration when realize raises: generate_summary has no handler
RealizeRaises ==
    /\ pc = "realize"
    /\ fi <= Len(content)
    /\ \E r \in RealizeFact(content[fi]) :
        /\ IsException(r)
        /\ Raise(r)
    /\ UNCHANGED <<scipy, config, df, gi, results, stats, content, fi, sentences, summary>>

\* summary = " ".join(sentences); return summary
JoinSentences ==
    /\ pc = "realize"
    /\ fi > Len(content)
    /\ summary' = JoinWith(" ", sentences)
    /\ pc' = "done"
    /\ UNCHANGED <<scipy, config, df, gi, results, stats, content, fi, sentences, error>>

Next ==
    \/ ComputeBasicInfo
    \/ AnalyzeGroup
    \/ AnalyzeGroupRaises
    \/ SkipGroup
    \/ DetectPatterns
    \/ SelectContent
    \/ Realize
    \/ RealizeRaises
    \/ JoinSentences

Spec == Init /\ [][Next]_vars


-----------------------------------------------------------------------------
(* Lexicalizer.describe_trend called on its own: the arguments of the call  *)
(* are the one element of content, [kind |-> var_type, data |-> [slope,     *)
(* r_squared]], and the phrase it returns is the one token of summary.      *)

\* slopes around the breakpoints of the tiers, in hundredths per year
TrendSlopes ==
    {0 - 201, 0 - 200, 0 - 101, 0 - 100, 0 - 51, 0 - 50, 0 - 21, 0 - 20, 0 - 1, 0,
     1, 20, 21, 50, 51, 100, 101, 200, 201, NaN}

\* r_squared around the 0.2 limit
TrendR2s == {0, 19, 20, 21, 100, NaN}

VarTypes == {"temperature", "precipitation", "wind_speed"}

LexInit ==
    /\ config \in {c \in Configs : c.r2_threshold = 30 /\ c.extreme_threshold = 200}
    /\ df = [date |-> YearApart(1), cols |-> << >>]
    /\ scipy \in Libraries(df)
    /\ pc = "describe"
    /\ gi = 0
    /\ results = EmptyDict
    /\ stats = EmptyDict
    /\ content \in {<<Fact(var_type, [slope |-> slope, r_squared |-> r_squared])>> :
                        var_type \in VarTypes, slope \in TrendSlopes, r_squared \in TrendR2s}
    /\ fi = 0
    /\ sentences = << >>
    /\ summary = << >>
    /\ error = ""

DescribeTrend ==
    /\ pc = "describe"
    /\ summary' = <<describe_trend(content[1].data.slope, content[1].data.r_squared,
                                   content[1].kind)>>
    /\ pc' = "described"
    /\ UNCHANGED <<scipy, config, df, gi, results, stats, content, fi, sentences, error>>

LexNext == DescribeTrend

LexSpec == LexInit /\ [][LexNext]_vars

-----------------------------------------------------------------------------
(* The stages of generate_summary as functions of their inputs              *)

\* DatasetAnalyzer.analyze() as a whole: the statistics, or the exception the
\* first raising regression ends it with
analyze(d, station, lib) ==
    LET present == {i \in DOMAIN GroupOrder :
                        variable_groups[GroupOrder[i]].primary \in DOMAIN d.cols}
        trend(i) == detect_trend(d, variable_groups[GroupOrder[i]].primary, lib)
        raising == {i \in present : IsException(trend(i))}
    IN  IF raising # {}
        THEN trend(CHOOSE i \in raising : \A j \in raising : i <= j)
        ELSE LET groups == [g \in {GroupOrder[i] : i \in present} |->
                              LET i == CHOOSE i \in present : GroupOrder[i] = g
                              IN  GroupBundle(d, variable_groups[g], trend(i))]
                 res == groups @@ ("basic" :> compute_basic_info(d, station))
             IN  ("patterns" :> detect_cross_variable_patterns(d, res)) @@ res

\* the kinds random.choice has more than one template to pick from
MultiKinds == {k \in DOMAIN templates : Len(templates[k]) > 1}

\* the ways random.choice can pick, one template index for each such kind
Picks ==
    {pick \in [MultiKinds -> 1..Len(templates.temperature_summary)] :
        \A k \in MultiKinds : pick[k] <= Len(templates[k])}

\* the loop body of generate_summary for one fact under the picks
RealizeWithPick(fact, pick) ==
    IF fact.kind = "other_conditions" THEN realize_combined_conditions(fact.data)
    ELSE IF fact.kind \notin DOMAIN templates THEN [text |-> << >>]
    ELSE realize_with(fact.kind, fact.data,
                      templates[fact.kind][IF fact.kind \in MultiKinds
                                            THEN pick[fact.kind] ELSE 1])

\* the sentences list after the first upto facts of the plan, under the picks;
\* a raising fact leaves the name of its exception in the place of a sentence
RECURSIVE Rendering(_, _, _)
Rendering(plan, pick, upto) ==
    IF upto = 0 THEN << >>
    ELSE LET r == RealizeWithPick(plan[upto], pick)
         IN  AppendSentence(Rendering(plan, pick, upto - 1),
                            IF IsException(r) THEN <<r.exception>> ELSE r.text)

-----------------------------------------------------------------------------
(* generate_summary from the planning step on, for statistics of a table    *)
(* with any of the six secondary groups: each group is missing, in the      *)
(* statistics without being notable, or notable by its variability.         *)

\* the bundle of secondary group number k: mean k + 0.5, coefficient of
\* variation 0.1 or 0.7, no trend over one year
SecondaryBundle(k, notable) ==
    LET mean == k * 100 + 50
        cv == IF notable THEN 70 ELSE 10
        day == Date(2020, 1, 15)
    IN  [summary |-> [mean |-> mean, std |-> FMul(mean, cv), min |-> 0, max |-> 2 * mean,
                      coefficient_of_variation |-> cv],
         trend |-> TrendRecord(0, 0, 100),
         seasonal |-> [summer |-> mean, winter |-> mean, spring |-> mean, fall |-> mean,
                       range |-> 0],
         range |-> None,
         yearly |-> [yearly_mean |-> mean, yearly_std |-> NaN, highest_year |-> 2020,
                     highest_value |-> mean, lowest_year |-> 2020, lowest_value |-> mean,
                     highest_zscore |-> 0, lowest_zscore |-> 0],
         extremes |-> [highest |-> [value |-> 2 * mean, date |-> day],
                       lowest |-> [value |-> 0, date |-> day]],
         optional_features |-> None]

SecondaryStates == {"missing", "plain", "notable"}

\* the statistics for one choice of the state of each secondary group
SecondaryStatistics(choice) ==
    LET present == {k \in DOMAIN SecondaryVars : choice[k] # "missing"}
        groups == [g \in {SecondaryVars[k] : k \in present} |->
                    LET k == CHOOSE k \in present : SecondaryVars[k] = g
                    IN  SecondaryBundle(k, choice[k] = "notable")]
    IN  groups
        @@ [basic |-> [station |-> "unknown", start_date |-> Date(2020, 1, 15),
                       end_date |-> Date(2020, 12, 15), n_records |-> 12],
            patterns |-> [correlations |->
                            <<[key |-> PairKey("rain", "snow"), correlation |-> 87,
                               relationship |-> "direct"]>>]]

CombineInit ==
    /\ config \in {c \in Configs : c.r2_threshold = 30 /\ c.extreme_threshold = 200}
    /\ df = [date |-> OneYear(1), cols |-> << >>]
    /\ scipy \in Libraries(df)
    /\ pc = "plan"
    /\ gi = Len(GroupOrder) + 1
    /\ \E choice \in [DOMAIN SecondaryVars -> SecondaryStates] :
        /\ results = SecondaryStatistics(choice)
        /\ stats = SecondaryStatistics(choice)
    /\ content = << >>
    /\ fi = 0
    /\ sentences = << >>
    /\ summary = << >>
    /\ error = ""

CombineNext ==
    \/ SelectContent
    \/ Realize
    \/ JoinSentences

CombineSpec == CombineInit /\ [][CombineNext]_vars

-----------------------------------------------------------------------------
(* Properties                                                              *)

\* select_content has just returned: content does not change afterwards
Planned == pc = "realize" /\ fi = 1

Kinds == {content[i].kind : i \in DOMAIN content}
FactsOf(kind) == {i \in DOMAIN content : content[i].kind = kind}
DataOf(kind) == content[CHOOSE i \in FactsOf(kind) : TRUE].data

PresentPrimary == {v \in Range(PrimaryVars) : v \in DOMAIN stats}
PresentSecondary == {v \in Range(SecondaryVars) : v \in DOMAIN stats}

\* C1: for each primary variable in the statistics, '<var>_trend' is emitted
\* if and only if r_squared >= r2_threshold and p_value < p_value_threshold
\* (both numbers), and its payload is the group's trend
C1_TrendIff ==
    Planned =>
        \A v \in PresentPrimary :
            LET t == stats[v].trend
                significant == /\ IsNum(t.r_squared) /\ t.r_squared >= config.r2_threshold
                               /\ IsNum(t.p_value) /\ t.p_value < config.p_value_threshold
            IN  /\ (v \o "_trend") \in Kinds <=> significant
                /\ significant => DataOf(v \o "_trend") = t

\* a trend with r_squared equal to the threshold is emitted, one with p_value
\* equal to the threshold is not
C1_Witness ==
    /\ Planned
    /\ PresentPrimary = {"temperature", "precipitation"}
    /\ stats.temperature.trend.r_squared = config.r2_threshold
    /\ stats.temperature.trend.p_value < config.p_value_threshold
    /\ "temperature_trend" \in Kinds
    /\ stats.precipitation.trend.r_squared > config.r2_threshold
    /\ stats.precipitation.trend.p_value = config.p_value_threshold
    /\ "precipitation_trend" \notin Kinds

\* C2: the pattern_correlation fact carries the pair with the greatest
\* absolute correlation of a non-empty correlations mapping
C2_StrongestPair ==
    (Planned /\ stats.patterns.correlations # << >>) =>
        /\ "pattern_correlation" \in Kinds
        /\ LET sel == DataOf("pattern_correlation")
               items == stats.patterns.correlations
           IN  /\ "variables" \in DOMAIN sel
               /\ \E i \in DOMAIN items :
                    /\ items[i].key = sel.variables
                    /\ items[i].correlation = sel.correlation
                    /\ \A j \in DOMAIN items :
                        Abs(items[i].correlation) >= Abs(items[j].correlation)

\* C3: realize never raises
C3_RealizeNeverRaises == ~(pc = "raised" /\ fi > 0)


KindOrder ==
    <<"overview",
      "temperature_summary", "temperature_trend", "temperature_seasonal",
      "temperature_yearly", "temperature_extremes",
      "precipitation_summary", "precipitation_trend", "precipitation_seasonal",
      "precipitation_yearly", "precipitation_extremes",
      "other_conditions", "pattern_trends", "pattern_correlation">>

Rank(kind) == CHOOSE k \in DOMAIN KindOrder : KindOrder[k] = kind

\* C4: the facts come in a fixed order: overview first; every temperature
\* fact before every precipitation fact; within a variable summary, trend,
\* seasonal, yearly, extremes; then other_conditions, pattern_trends,
\* pattern_correlation
C4_FactOrder ==
    Planned =>
        /\ content[1].kind = "overview"
        /\ \A i \in DOMAIN content : content[i].kind \in Range(KindOrder)
        /\ \A i, j \in DOMAIN content :
            i < j => Rank(content[i].kind) < Rank(content[j].kind)

\* a plan holding every kind of fact of both primary variables' sequences
\* and the three closing facts
C4_Witness ==
    /\ Planned
    /\ {"temperature_summary", "temperature_trend", "temperature_seasonal",
        "temperature_yearly", "temperature_extremes",
        "precipitation_summary", "precipitation_trend", "precipitation_extremes",
        "other_conditions", "pattern_trends", "pattern_correlation"} \subseteq Kinds

\* C5: for each primary variable in the statistics, '<var>_yearly' is emitted
\* if and only if |highest_zscore| >= extreme_threshold or
\* |lowest_zscore| >= extreme_threshold, with the yearly sub-bundle as payload
C5_YearlyIff ==
    Planned =>
        \A v \in PresentPrimary :
            LET y == stats[v].yearly
                notable == /\ y # None
                           /\ \/ IsNum(y.highest_zscore)
                                 /\ Abs(y.highest_zscore) >= config.extreme_threshold
                              \/ IsNum(y.lowest_zscore)
                                 /\ Abs(y.lowest_zscore) >= config.extreme_threshold
            IN  /\ (v \o "_yearly") \in Kinds <=> notable
                /\ notable => DataOf(v \o "_yearly") = y

\* a yearly fact emitted for a z-score exactly at the threshold, and none
\* for a variable whose z-scores stay below it
C5_Witness ==
    /\ Planned
    /\ PresentPrimary = {"temperature", "precipitation"}
    /\ Abs(stats.temperature.yearly.highest_zscore) = config.extreme_threshold
    /\ Abs(stats.temperature.yearly.lowest_zscore) = config.extreme_threshold
    /\ "temperature_yearly" \in Kinds
    /\ Abs(stats.precipitation.yearly.highest_zscore) < config.extreme_threshold
    /\ Abs(stats.precipitation.yearly.lowest_zscore) < config.extreme_threshold
    /\ "precipitation_yearly" \notin Kinds

\* the three strict tests of a secondary group
NotableGroup(v) ==
    LET b == stats[v]
    IN  \/ /\ b.summary # None
           /\ IsNum(b.summary.coefficient_of_variation)
           /\ b.summary.coefficient_of_variation > 60
        \/ /\ b.trend # None
           /\ IsNum(b.trend.r_squared)
           /\ b.trend.r_squared > config.r2_threshold
        \/ /\ b.yearly # None
           /\ IsNum(b.yearly.highest_zscore)
           /\ Abs(b.yearly.highest_zscore) > config.extreme_threshold

\* C6: at most one other_conditions fact; it is emitted if and only if some
\* secondary group in the statistics is notable (coefficient of variation
\* > 0.6, or trend r_squared > r2_threshold, or |highest_zscore| >
\* extreme_threshold, all strict); its payload is exactly the
\* (name, bundle) pairs of the notable groups
C6_OtherConditions ==
    Planned =>
        LET notable == {v \in PresentSecondary : NotableGroup(v)}
        IN  /\ Cardinality(FactsOf("other_conditions")) <= 1
            /\ "other_conditions" \in Kinds <=> notable # {}
            /\ notable # {} =>
                LET payload == DataOf("other_conditions")
                IN  /\ Len(payload) = Cardinality(notable)
                    /\ {payload[i].name : i \in DOMAIN payload} = notable
                    /\ \A i \in DOMAIN payload :
                        payload[i].stats = stats[payload[i].name]

\* one secondary group sits exactly on the coefficient-of-variation
\* boundary and is left out while another one is carried
C6_Witness ==
    /\ Planned
    /\ PresentSecondary = {"wind_speed", "rain"}
    /\ stats.wind_speed.summary.coefficient_of_variation = 60
    /\ ~NotableGroup("wind_speed")
    /\ NotableGroup("rain")
    /\ "other_conditions" \in Kinds
    /\ Len(DataOf("other_conditions")) = 1


\* rest is the renderings of content[i..], the empty ones left out, each
\* but the first of the whole text preceded by one " "
RECURSIVE IsJoinOf(_, _, _)
IsJoinOf(rest, i, first) ==
    IF i > Len(content) THEN rest = << >>
    ELSE \E r \in RealizeFact(content[i]) :
            /\ ~IsException(r)
            /\ IF r.text = << >> THEN IsJoinOf(rest, i + 1, first)
               ELSE LET piece == IF first THEN r.text ELSE <<" ">> \o r.text
                    IN  /\ Len(rest) >= Len(piece)
                        /\ SubSeq(rest, 1, Len(piece)) = piece
                        /\ IsJoinOf(SubSeq(rest, Len(piece) + 1, Len(rest)), i + 1, FALSE)

\* C7: the final summary is the non-empty rendered sentences joined by one
\* single space, in the order of the facts; an empty rendering adds neither
\* text nor a separator, and no sentence is reordered, duplicated or dropped
C7_SummaryJoin == pc = "done" => IsJoinOf(summary, 1, TRUE)

\* a finished run with a fact that rendered empty between facts that did not
C7_Witness ==
    /\ pc = "done"
    /\ \E i \in 2..(Len(content) - 1) :
        \A r \in RealizeFact(content[i]) : ~IsException(r) /\ r.text = << >>
    /\ Len(sentences) >= 5
    /\ Len(sentences) < Len(content)

DistinctDates == {DateKey(df.date[i]) : i \in DOMAIN df.date}

AnalyzedGroups == DOMAIN results \ {"basic", "patterns"}

\* analyze is at work or has just returned: results does not change afterwards
Analyzing == pc \in {"groups", "patterns", "plan"}

\* C8: trend detection never raises: with fewer than 2 distinct time points
\* analyze still returns, the group's trend is degenerate with r_squared 0
\* (or empty/None), and the other sub-bundles are still computed
C8_TrendNeverRaises ==
    /\ ~(pc = "raised" /\ fi = 0)
    /\ Cardinality(DistinctDates) < 2 =>
        \A g \in AnalyzedGroups :
            /\ \/ ~Truthy(results[g].trend)
               \/ results[g].trend.r_squared = 0
            /\ {"summary", "seasonal", "yearly", "extremes"} \subseteq DOMAIN results[g]

BundleKeys ==
    {"summary", "trend", "seasonal", "range", "yearly", "extremes", "optional_features"}

ColumnPresent(g) == variable_groups[g].primary \in DOMAIN df.cols

\* C9: a group whose primary column is absent gets no key in the statistics
\* (no partial bundle), and the plan holds no fact and no other_conditions
\* entry for it; a group whose primary column is present has a whole bundle
\* in the statistics analyze returns
C9_MissingColumn ==
    /\ \A g \in Range(GroupOrder) :
        /\ g \in DOMAIN results => ColumnPresent(g) /\ DOMAIN results[g] = BundleKeys
        /\ g \in DOMAIN stats => ColumnPresent(g) /\ DOMAIN stats[g] = BundleKeys
        /\ (ColumnPresent(g) /\ stats # EmptyDict) => g \in DOMAIN stats
    /\ Planned =>
        \A g \in Range(GroupOrder) :
            ~ColumnPresent(g) =>
                /\ \A suffix \in {"_summary", "_trend", "_seasonal", "_yearly", "_extremes"} :
                    (g \o suffix) \notin Kinds
                /\ "other_conditions" \in Kinds =>
                    \A i \in DOMAIN DataOf("other_conditions") :
                        DataOf("other_conditions")[i].name # g

\* a plan made from statistics with a primary and two secondary groups
\* missing and the other groups' facts present
C9_Witness ==
    /\ Planned
    /\ ~ColumnPresent("temperature") /\ "temperature" \notin DOMAIN stats
    /\ ~ColumnPresent("wind_speed") /\ "wind_speed" \notin DOMAIN stats
    /\ ColumnPresent("precipitation") /\ "precipitation_summary" \in Kinds
    /\ ColumnPresent("rain") /\ "other_conditions" \in Kinds

\* C10: select_content leaves the statistics as they were before the call
C10_StatsUnchanged == [][pc = "plan" => stats' = stats]_vars

\* select_content has just returned a plan made from statistics with
\* group bundles and a non-empty correlations mapping
C10_Witness ==
    /\ pc = "realize" /\ fi = 1
    /\ Len(content) >= 5
    /\ stats.patterns.correlations # << >>
    /\ "other_conditions" \in Kinds


\* the cells of a group's primary column
PrimaryCells(g) == df.cols[variable_groups[g].primary]

\* C11: the coefficient of variation of a group's summary is always a
\* defined number: 0 when the mean is 0, and exactly 0 for every constant
\* primary column, a single-row table included; for such a group the
\* variability test (CV > 0.6) is false
C11_CvDefined ==
    \A g \in AnalyzedGroups :
        LET sm == results[g].summary
            cv == sm.coefficient_of_variation
        IN  /\ IsNum(cv)
            /\ sm.mean = 0 => cv = 0
            /\ Cardinality(Range(PrimaryCells(g))) = 1 => cv = 0 /\ ~(cv > 60)

DistinctYears == {df.date[i].year : i \in DOMAIN df.date}

\* the per-year means have no spread: one calendar year, or the same mean
\* in every year
NoYearlySpread(y) == Cardinality(DistinctYears) = 1 \/ y.highest_value = y.lowest_value

\* C12: highest_zscore and lowest_zscore are both 0 whenever the standard
\* deviation of the per-year means is 0 or undefined, and no '<var>_yearly'
\* fact is emitted for such a group
C12_ZeroZscores ==
    /\ Analyzing => \A g \in AnalyzedGroups :
        LET y == results[g].yearly
        IN  (y.yearly_std = 0 \/ y.yearly_std = NaN \/ NoYearlySpread(y)) =>
                y.highest_zscore = 0 /\ y.lowest_zscore = 0
    /\ Planned =>
        \A v \in PresentPrimary :
            LET y == stats[v].yearly
            IN  (y.yearly_std = 0 \/ y.yearly_std = NaN \/ NoYearlySpread(y)) =>
                    (v \o "_yearly") \notin Kinds

\* a plan from a table of several years in which temperature has the same
\* mean every year (standard deviation 0, no yearly fact) while
\* precipitation's yearly fact is emitted
C12_Witness ==
    /\ Planned
    /\ Cardinality(DistinctYears) > 1
    /\ PresentPrimary = {"temperature", "precipitation"}
    /\ stats.temperature.yearly.yearly_std = 0
    /\ stats.temperature.yearly.highest_zscore = 0
    /\ "temperature_yearly" \notin Kinds
    /\ "precipitation_yearly" \in Kinds


\* the column the extremes of group g are read from: the first supporting
\* column of the schema named with the part ('max' or 'min') that the table
\* has, else the primary column
ResolvedColumn(g, part) ==
    LET sup == variable_groups[g].supporting
        cands == {i \in DOMAIN sup : HasPart(sup[i], part) /\ sup[i] \in DOMAIN df.cols}
    IN  IF cands # {} THEN sup[MinOf(cands)] ELSE variable_groups[g].primary

\* the rows of column c at which it takes the value v (in whole units)
RowsAt(c, v) == {i \in DOMAIN df.cols[c] : df.cols[c][i] = v}

\* entry (of an extremes sub-bundle) reports value v of column c with the
\* date of the first row that has it
FirstRowOf(entry, c, v) ==
    /\ entry.value = v * 100
    /\ entry.date = df.date[MinOf(RowsAt(c, v))]

\* C13: extremes.highest is the maximum of the resolved max column with the
\* date of the first row in table order attaining it, extremes.lowest the
\* minimum of the resolved min column with the date of the first row
\* attaining it
C13_ExtremesFirstRow ==
    Analyzing => \A g \in AnalyzedGroups :
        LET e == results[g].extremes
        IN  e # None =>
            /\ "highest" \in DOMAIN e =>
                LET c == ResolvedColumn(g, "max")
                IN  FirstRowOf(e.highest, c, MaxOf(Range(df.cols[c])))
            /\ "lowest" \in DOMAIN e =>
                LET c == ResolvedColumn(g, "min")
                IN  FirstRowOf(e.lowest, c, MinOf(Range(df.cols[c])))

\* a group whose maximum is taken by several rows of different dates, and
\* another whose minimum is
C13_Witness ==
    /\ {"precipitation", "rain"} \subseteq AnalyzedGroups
    /\ Cardinality(DistinctDates) = Len(df.date)
    /\ LET c == ResolvedColumn("precipitation", "max")
       IN  /\ Cardinality(RowsAt(c, MaxOf(Range(df.cols[c])))) > 1
           /\ results.precipitation.extremes.highest.date = df.date[1]
    /\ LET c == ResolvedColumn("rain", "min")
       IN  /\ Cardinality(RowsAt(c, MinOf(Range(df.cols[c])))) > 1
           /\ results.rain.extremes.lowest.date = df.date[1]

\* C14: for a group whose primary column is in the table both 'highest' and
\* 'lowest' exist, read from the supporting max/min column if the table has
\* it and from the primary column otherwise
C14_ExtremesFallBack ==
    \A g \in AnalyzedGroups :
        LET e == results[g].extremes
        IN  /\ e # None
            /\ {"highest", "lowest"} \subseteq DOMAIN e
            /\ e.highest.value = MaxOf(Range(df.cols[ResolvedColumn(g, "max")])) * 100
            /\ e.lowest.value = MinOf(Range(df.cols[ResolvedColumn(g, "min")])) * 100


\* the calendar months of the meteorological seasons
MonthsOf ==
    [winter |-> {12, 1, 2}, spring |-> {3, 4, 5}, summer |-> {6, 7, 8}, fall |-> {9, 10, 11}]

SeasonRows(k) == {i \in DOMAIN df.date : df.date[i].month \in MonthsOf[k]}

SeasonsPresent == {k \in DOMAIN MonthsOf : SeasonRows(k) # {}}

\* the mean of group g's primary column over the rows of season k, in hundredths
SeasonMean(g, k) ==
    LET idx == SortedSeq(SeasonRows(k))
    IN  RoundDiv(SumSeq([j \in DOMAIN idx |-> PrimaryCells(g)[idx[j]] * 100]), Len(idx))

\* C15: every row belongs to exactly one meteorological season by its month,
\* each season field is the mean of the primary column over that season's
\* rows, and seasonal.range is the greatest minus the least mean of the
\* seasons that have a row
C15_SeasonalMeans ==
    /\ Analyzing => \A i \in DOMAIN df.date :
        Cardinality({k \in DOMAIN MonthsOf : i \in SeasonRows(k)}) = 1
    /\ Analyzing => \A g \in AnalyzedGroups :
        LET s == results[g].seasonal
            means == {SeasonMean(g, k) : k \in SeasonsPresent}
        IN  /\ s # None
            /\ \A k \in DOMAIN MonthsOf :
                s[k] = IF k \in SeasonsPresent THEN SeasonMean(g, k) ELSE NoneNum
            /\ s.range = MaxOf(means) - MinOf(means)

\* a table with rows in all four seasons, a December row among them, and a
\* group whose four season means differ
C15_Witness ==
    /\ SeasonsPresent = DOMAIN MonthsOf
    /\ \E i \in DOMAIN df.date : df.date[i].month = 12
    /\ "temperature" \in AnalyzedGroups
    /\ LET s == results.temperature.seasonal
       IN  /\ Cardinality({s.winter, s.spring, s.summer, s.fall}) = 4
           /\ s.range = MaxOf({s.winter, s.spring, s.summer, s.fall})
                        - MinOf({s.winter, s.spring, s.summer, s.fall})
           /\ s.range > 0

\* analyze has just returned the statistics
Returned == pc = "plan"

\* the pairs <<i, j>>, i before j in schema order, of groups whose primary
\* columns are both in the table
PresentPairs ==
    {p \in (DOMAIN GroupOrder) \X (DOMAIN GroupOrder) :
        p[1] < p[2] /\ ColumnPresent(GroupOrder[p[1]]) /\ ColumnPresent(GroupOrder[p[2]])}

\* Pearson r of every such pair
PairCorr ==
    [p \in PresentPairs |->
        CorrOf(PrimaryCells(GroupOrder[p[1]]), PrimaryCells(GroupOrder[p[2]]))]

KeyOfPair(p) == GroupOrder[p[1]] \o "_and_" \o GroupOrder[p[2]]

\* C16: the correlations mapping holds exactly one entry for each unordered
\* pair of distinct groups in schema and table with Pearson |r| > 0.5 and no
\* other entry; the key is '<a>_and_<b>' with a before b in schema order;
\* 'relationship' is 'inverse' exactly when the correlation is negative
C16_Correlations ==
    Returned =>
        LET items == stats.patterns.correlations
            corr == PairCorr
            strong == {p \in PresentPairs : IsNum(corr[p]) /\ Abs(corr[p]) > 50}
        IN  /\ Len(items) = Cardinality(strong)
            /\ \A p \in strong :
                \E i \in DOMAIN items :
                    /\ items[i].key = KeyOfPair(p)
                    /\ items[i].correlation = corr[p]
            /\ \A i \in DOMAIN items :
                /\ \E p \in strong : items[i].key = KeyOfPair(p)
                /\ items[i].relationship = "inverse" <=> items[i].correlation < 0
                /\ items[i].relationship \in {"inverse", "direct"}
                /\ \A j \in DOMAIN items : i # j => items[i].key # items[j].key

\* statistics with a direct and an inverse entry and with a pair of groups
\* of the table that is left out
C16_Witness ==
    /\ Returned
    /\ LET items == stats.patterns.correlations
       IN  /\ \E i \in DOMAIN items : items[i].relationship = "inverse"
           /\ \E i \in DOMAIN items : items[i].relationship = "direct"
           /\ Len(items) >= 3
           /\ Cardinality(PresentPairs) > Len(items)

\* the analyzed groups whose trend r_squared is above 0.3
TrendingGroups ==
    {g \in Range(GroupOrder) \cap DOMAIN stats :
        IsNum(stats[g].trend.r_squared) /\ stats[g].trend.r_squared > 30}

\* C17: strongest_trends, when present, holds at most 2 entries, each a
\* group with trend r_squared > 0.3, sorted by r_squared descending, the
\* groups of highest r_squared among all analyzed groups; the key is absent
\* when no group has r_squared > 0.3, whatever the configured r2_threshold
C17_StrongestTrends ==
    Returned =>
        IF TrendingGroups = {} THEN "strongest_trends" \notin DOMAIN stats.patterns
        ELSE /\ "strongest_trends" \in DOMAIN stats.patterns
             /\ LET top == stats.patterns.strongest_trends
                    names == {top[i].name : i \in DOMAIN top}
                IN  /\ Len(top) = IF Cardinality(TrendingGroups) < 2
                                  THEN Cardinality(TrendingGroups) ELSE 2
                    /\ Cardinality(names) = Len(top)
                    /\ names \subseteq TrendingGroups
                    /\ \A i \in DOMAIN top :
                        /\ top[i].r_squared = stats[top[i].name].trend.r_squared
                        /\ top[i].direction = stats[top[i].name].trend.direction
                        /\ top[i].slope = stats[top[i].name].trend.slope
                    /\ \A i, j \in DOMAIN top : i < j => top[i].r_squared >= top[j].r_squared
                    /\ \A g \in TrendingGroups \ names :
                        \A i \in DOMAIN top : stats[g].trend.r_squared <= top[i].r_squared

\* three or more groups above 0.3 of which two are kept, the second with a
\* smaller r_squared than the first and not above the configured
\* r2_threshold
C17_Witness ==
    /\ Returned
    /\ Cardinality(TrendingGroups) >= 3
    /\ "strongest_trends" \in DOMAIN stats.patterns
    /\ LET top == stats.patterns.strongest_trends
       IN  /\ Len(top) = 2
           /\ top[1].r_squared > top[2].r_squared
           /\ top[2].r_squared <= config.r2_threshold

\* C18: a 'pattern_trends' fact is emitted if and only if the patterns'
\* strongest_trends list exists and is non-empty, and the payload is that list
C18_PatternTrends ==
    Planned =>
        LET present == /\ "strongest_trends" \in DOMAIN stats.patterns
                       /\ stats.patterns.strongest_trends # << >>
        IN  /\ "pattern_trends" \in Kinds <=> present
            /\ Cardinality(FactsOf("pattern_trends")) <= 1
            /\ present => DataOf("pattern_trends") = stats.patterns.strongest_trends

\* a plan whose pattern_trends fact carries a list of two trends
C18_Witness ==
    /\ Planned
    /\ "pattern_trends" \in Kinds
    /\ Len(DataOf("pattern_trends")) = 2
    /\ DataOf("pattern_trends") = stats.patterns.strongest_trends


\* every group of the table has its whole bundle in res
BundlesComplete(res) ==
    \A g \in Range(GroupOrder) :
        ColumnPresent(g) => g \in DOMAIN res /\ DOMAIN res[g] = BundleKeys

\* res is the whole statistics structure
StatisticsComplete(res) ==
    /\ BundlesComplete(res)
    /\ "basic" \in DOMAIN res
    /\ "patterns" \in DOMAIN res
    /\ "correlations" \in DOMAIN res.patterns

\* C19: the stages of one run follow each other: every group bundle is
\* complete before the cross-variable patterns are computed, analyze has
\* returned the whole statistics (with 'patterns') before select_content
\* starts, and select_content has returned the whole fact list before the
\* first fact is realized
C19_StageOrder ==
    /\ pc \in {"analyze", "groups"} =>
        /\ "patterns" \notin DOMAIN results
        /\ stats = EmptyDict /\ content = << >> /\ sentences = << >> /\ summary = << >>
    /\ pc = "patterns" =>
        /\ BundlesComplete(results) /\ "patterns" \notin DOMAIN results
        /\ stats = EmptyDict /\ content = << >> /\ sentences = << >> /\ summary = << >>
    /\ "patterns" \in DOMAIN results => BundlesComplete(results)
    /\ pc = "plan" =>
        /\ StatisticsComplete(stats) /\ stats = results
        /\ content = << >> /\ sentences = << >> /\ summary = << >>
    /\ content # << >> => StatisticsComplete(stats)
    /\ Planned => content = select_content(config, stats)
    /\ (sentences # << >> \/ fi > 1) => content # << >>
    /\ pc = "done" => fi = Len(content) + 1

\* a finished run over a table with two primary and two secondary groups
C19_Witness ==
    /\ pc = "done"
    /\ Cardinality(AnalyzedGroups) = 4
    /\ Len(sentences) >= 5
    /\ summary # << >>


\* thresholds to compare the configured ones with, in hundredths
R2Levels == {0, 25, 30, 75, 76, 77, 100}
ExtremeLevels == {50, 100, 101, 200, 300}

\* the kinds of the facts of a plan that end in suffix
KindsWith(plan, suffix) ==
    {plan[i].kind : i \in DOMAIN plan}
        \cap {v \o suffix : v \in Range(PrimaryVars)}

\* the trend facts planned under each level of r2_threshold, the yearly
\* facts planned under each level of extreme_threshold
TrendsAt ==
    [t \in R2Levels |->
        KindsWith(select_content([config EXCEPT !.r2_threshold = t], stats), "_trend")]
YearliesAt ==
    [t \in ExtremeLevels |->
        KindsWith(select_content([config EXCEPT !.extreme_threshold = t], stats), "_yearly")]

\* C20: for the same statistics, raising r2_threshold never adds a
\* '<var>_trend' fact and raising extreme_threshold never adds a
\* '<var>_yearly' fact: the facts under the higher threshold are a subset of
\* those under the lower one
C20_Monotone ==
    Planned =>
        LET trends == TrendsAt
            yearlies == YearliesAt
            planned_trends == KindsWith(content, "_trend")
            planned_yearlies == KindsWith(content, "_yearly")
        IN  /\ \A t \in R2Levels :
                /\ t >= config.r2_threshold => trends[t] \subseteq planned_trends
                /\ t <= config.r2_threshold => planned_trends \subseteq trends[t]
            /\ \A lo, hi \in R2Levels : lo <= hi => trends[hi] \subseteq trends[lo]
            /\ \A t \in ExtremeLevels :
                /\ t >= config.extreme_threshold => yearlies[t] \subseteq planned_yearlies
                /\ t <= config.extreme_threshold => planned_yearlies \subseteq yearlies[t]
            /\ \A lo, hi \in ExtremeLevels : lo <= hi => yearlies[hi] \subseteq yearlies[lo]

\* a plan with a trend fact that a higher r2_threshold drops and a yearly
\* fact that a higher extreme_threshold drops
C20_Witness ==
    /\ Planned
    /\ \E t \in R2Levels :
        /\ t > config.r2_threshold
        /\ TrendsAt[t] # KindsWith(content, "_trend")
        /\ TrendsAt[t] \subseteq KindsWith(content, "_trend")
    /\ \E t \in ExtremeLevels :
        /\ t > config.extreme_threshold
        /\ YearliesAt[t] # KindsWith(content, "_yearly")
        /\ YearliesAt[t] \subseteq KindsWith(content, "_yearly")


PrimarySuffixes == {"_summary", "_trend", "_seasonal", "_yearly", "_extremes"}

\* a sub-bundle that is a non-empty dict
NonEmpty(sub) == sub # None /\ sub # EmptyDict

\* C21: for each primary variable in the statistics '<var>_summary' is
\* always emitted, '<var>_seasonal' and '<var>_extremes' if and only if the
\* group's seasonal and extremes sub-bundle is non-empty; no fact of a
\* primary variable absent from the statistics is emitted
C21_PrimaryFacts ==
    Planned =>
        \A v \in Range(PrimaryVars) :
            IF v \in DOMAIN stats
            THEN /\ Cardinality(FactsOf(v \o "_summary")) = 1
                 /\ DataOf(v \o "_summary") = stats[v]
                 /\ (v \o "_seasonal") \in Kinds <=> NonEmpty(stats[v].seasonal)
                 /\ NonEmpty(stats[v].seasonal) => DataOf(v \o "_seasonal") = stats[v].seasonal
                 /\ (v \o "_extremes") \in Kinds <=> NonEmpty(stats[v].extremes)
                 /\ NonEmpty(stats[v].extremes) => DataOf(v \o "_extremes") = stats[v].extremes
            ELSE \A suffix \in PrimarySuffixes : (v \o suffix) \notin Kinds

\* a plan for a temperature group without extremes (summary and seasonal
\* fact, no extremes fact) and a precipitation group with them
C21_Witness ==
    /\ Planned
    /\ PresentPrimary = {"temperature", "precipitation"}
    /\ stats.temperature.extremes = None
    /\ {"temperature_summary", "temperature_seasonal"} \subseteq Kinds
    /\ "temperature_extremes" \notin Kinds
    /\ NonEmpty(stats.precipitation.extremes)
    /\ "precipitation_extremes" \in Kinds


\* the phrases of a temperature_trend sentence that name a rising direction
RisingPhrases ==
    {"showed " \o strength \o " " \o direction :
        strength \in {"significant", "moderate", "slight"},
        direction \in {"warming", "increasing"}}

\* C23: with r2_threshold 0.3 and p_value_threshold 0.05 a temperature
\* column rising linearly over time (r_squared 1, slope > 0, significant
\* p_value) gets a 'temperature_trend' fact, and the sentence of every
\* 'temperature_trend' fact names a direction, a rising one for a positive
\* slope, and never says 'stable'
C23_RisingTemperature ==
    (Planned /\ config.r2_threshold = 30 /\ config.p_value_threshold = 5) =>
        /\ ("temperature" \in DOMAIN stats
            /\ stats.temperature.trend.r_squared = 100
            /\ Gt(stats.temperature.trend.slope, 0)
            /\ Lt(stats.temperature.trend.p_value, config.p_value_threshold))
                => "temperature_trend" \in Kinds
        /\ \A i \in FactsOf("temperature_trend") :
            \A r \in RealizeFact(content[i]) :
                /\ ~IsException(r)
                /\ Len(r.text) = 3
                /\ r.text[2] # "remained relatively stable"
                /\ r.text[2] \in {"showed " \o strength \o " " \o direction :
                        strength \in {"significant", "moderate", "slight"},
                        direction \in {"warming", "increasing", "cooling", "decreasing"}}
                /\ Gt(content[i].data.slope, 0) => r.text[2] \in RisingPhrases

\* a plan under the default thresholds for a linearly rising temperature,
\* whose trend fact is realized with a rising phrase
C23_Witness ==
    /\ Planned /\ config.r2_threshold = 30 /\ config.p_value_threshold = 5
    /\ "temperature" \in DOMAIN stats
    /\ stats.temperature.trend.r_squared = 100
    /\ Gt(stats.temperature.trend.slope, 0)
    /\ "temperature_trend" \in Kinds
    /\ \A r \in realize("temperature_trend", DataOf("temperature_trend")) :
        ~IsException(r) /\ r.text[2] \in RisingPhrases

\* the arguments and the result of the describe_trend call
CallSlope == content[1].data.slope
CallR2 == content[1].data.r_squared
CallKind == content[1].kind
Phrase == summary[1]

DirectionWords == {"warming", "cooling", "increasing", "decreasing", "increased", "decreased"}

\* the strength word the tiers give for |slope| m and a kind
TierWord(kind, m) ==
    IF kind = "temperature"
    THEN (IF IsNum(m) /\ m > 50 THEN "showed significant "
          ELSE IF IsNum(m) /\ m > 20 THEN "showed moderate " ELSE "showed slight ")
    ELSE IF kind = "precipitation"
    THEN (IF IsNum(m) /\ m > 200 THEN "substantially "
          ELSE IF IsNum(m) /\ m > 100 THEN "moderately " ELSE "slightly ")
    ELSE ""

\* C24: describe_trend returns 'remained relatively stable' whenever
\* r_squared < 0.2, whatever slope and kind; otherwise the strength tier
\* depends only on |slope| and the kind, with strict breakpoints
\* (temperature 0.5 and 0.2, precipitation 2 and 1), and any other kind
\* gets a direction word with no strength tier
C24_TrendTiers ==
    pc = "described" =>
        IF IsNum(CallR2) /\ CallR2 < 20 THEN Phrase = "remained relatively stable"
        ELSE Phrase \in {TierWord(CallKind, Abs(CallSlope)) \o w : w \in DirectionWords}

\* a temperature call with |slope| on the 0.5 breakpoint and r_squared on
\* the 0.2 limit: the lower tier, not the stable phrase
C24_Witness ==
    /\ pc = "described"
    /\ CallKind = "temperature" /\ CallSlope = 50 /\ CallR2 = 20
    /\ Phrase \in {"showed moderate " \o w : w \in DirectionWords}

\* C25: for r_squared >= 0.2 the direction word is 'warming' for slope > 0
\* and 'cooling' otherwise for kind temperature, 'increasing' for slope > 0
\* and 'decreasing' otherwise for the other kinds
C25_DirectionWords ==
    (pc = "described" /\ IsNum(CallR2) /\ CallR2 >= 20) =>
        LET rising == IsNum(CallSlope) /\ CallSlope > 0
            word == IF CallKind = "temperature"
                    THEN (IF rising THEN "warming" ELSE "cooling")
                    ELSE (IF rising THEN "increasing" ELSE "decreasing")
        IN  Phrase \in {prefix \o word :
                prefix \in {"", "showed significant ", "showed moderate ", "showed slight ",
                            "substantially ", "moderately ", "slightly "}}


\* the separator before description i of n
Separator(i, n) ==
    IF i = 1 THEN << >>
    ELSE IF i < n THEN <<", ">>
    ELSE IF n = 2 THEN <<" and ">> ELSE <<", and ">>

\* the descriptions of items i..n with their separators
RECURSIVE ListFrom(_, _)
ListFrom(items, i) ==
    IF i > Len(items) THEN << >>
    ELSE Separator(i, Len(items)) \o Describe(items[i].name, items[i].stats)
         \o ListFrom(items, i + 1)

CombinedSentence(items) == <<"Other conditions included ">> \o ListFrom(items, 1) \o <<".">>

\* C26: the combined sentence joins the item descriptions, in input order,
\* by count: one item with no 'and', two items 'X and Y', three or more a
\* comma-separated list with ', and ' before the last; every item appears
\* exactly once; the Planner never passes an empty list
C26_CombinedConditions ==
    /\ (content # << >> /\ "other_conditions" \in Kinds) =>
        /\ DataOf("other_conditions") # << >>
        /\ realize_combined_conditions(DataOf("other_conditions")).text
            = CombinedSentence(DataOf("other_conditions"))
    /\ (pc = "done" /\ "other_conditions" \in Kinds) =>
        /\ Len(sentences) = 3
        /\ sentences[2] = CombinedSentence(DataOf("other_conditions"))
    /\ (pc = "done" /\ "other_conditions" \notin Kinds) => Len(sentences) = 2

\* a finished run whose combined sentence lists four conditions
C26_Witness ==
    /\ pc = "done"
    /\ "other_conditions" \in Kinds
    /\ Len(DataOf("other_conditions")) = 4
    /\ \E i \in DOMAIN sentences[2] : sentences[2][i] = ", and "
    /\ Cardinality({i \in DOMAIN sentences[2] : sentences[2][i] = ", "}) = 2


\* the correlation entries a comparison `> 0` accepts
PositiveCorrelations ==
    {i \in DOMAIN stats.patterns.correlations :
        /\ stats.patterns.correlations[i].correlation # NaN
        /\ stats.patterns.correlations[i].correlation > 0}

\* C27: every plan holds exactly one pattern_correlation fact, also when the
\* correlations mapping is empty or holds no positive correlation; in those
\* cases its payload is the empty mapping, with no 'variables', 'correlation'
\* or 'relationship'
C27_PatternCorrelation ==
    Planned =>
        /\ "patterns" \in DOMAIN stats
        /\ Cardinality(FactsOf("pattern_correlation")) = 1
        /\ PositiveCorrelations = {} =>
            /\ DataOf("pattern_correlation") = EmptyDict
            /\ DOMAIN DataOf("pattern_correlation")
                \cap {"variables", "correlation", "relationship"} = {}
        /\ PositiveCorrelations # {} =>
            {"variables", "correlation", "relationship"}
                \subseteq DOMAIN DataOf("pattern_correlation")

\* a plan over correlations that are all negative, with the empty payload
C27_Witness ==
    /\ Planned
    /\ stats.patterns.correlations # << >>
    /\ \A i \in DOMAIN stats.patterns.correlations :
        /\ stats.patterns.correlations[i].correlation # NaN
        /\ stats.patterns.correlations[i].correlation < 0
    /\ DataOf("pattern_correlation") = EmptyDict


\* the kinds the Planner can emit that have no entry in the templates
NoTemplate == {"pattern_trends", "precipitation_seasonal", "precipitation_yearly"}

\* the facts of the plan before position i that are of a kind with a template
\* or the combined conditions
Templated(i) == {j \in 1..(i - 1) : content[j].kind \notin NoTemplate}

\* C28: a fact of a kind without a template ('pattern_trends',
\* 'precipitation_seasonal', 'precipitation_yearly') is realized as the empty
\* string whatever its payload and adds no sentence; every other kind of a
\* plan except the combined conditions has at least one template
C28_NoTemplate ==
    (pc \in {"realize", "done", "raised"} /\ content # << >>) =>
        /\ \A i \in DOMAIN content :
            IF content[i].kind \in NoTemplate
            THEN /\ content[i].kind \notin DOMAIN templates
                 /\ realize(content[i].kind, content[i].data) = {[text |-> << >>]}
                 /\ realize(content[i].kind, None) = {[text |-> << >>]}
            ELSE content[i].kind # "other_conditions" =>
                    /\ content[i].kind \in DOMAIN templates
                    /\ Len(templates[content[i].kind]) >= 1
        /\ Len(sentences) <= Cardinality(Templated(fi))
        /\ \A i \in DOMAIN sentences : sentences[i] # << >>

\* a finished run whose plan holds facts of two kinds without a template and
\* whose sentences are one for each other fact
C28_Witness ==
    /\ pc = "done"
    /\ "pattern_trends" \in Kinds
    /\ "precipitation_seasonal" \in Kinds
    /\ Len(sentences) = Cardinality(Templated(fi))
    /\ Len(sentences) = Len(content) - Cardinality({i \in DOMAIN content :
                                                      content[i].kind \in NoTemplate})
    /\ Len(sentences) < Len(content)


\* the number of records the total is computed with when the payload has none
DefaultRecords == 1826

\* C29: the 'total' of a precipitation_summary sentence is the group mean
\* times 1826 whatever the number of rows of the table, since the payload is
\* the group bundle, which has no 'n_records'
C29_PrecipitationTotal ==
    (Planned /\ "precipitation_summary" \in Kinds) =>
        LET data == DataOf("precipitation_summary")
            total == data.summary.mean * DefaultRecords
        IN  /\ data = stats.precipitation
            /\ "n_records" \notin DOMAIN data
            /\ stats.basic.n_records = Len(df.date)
            /\ stats.basic.n_records # DefaultRecords
            /\ prepare_data("precipitation_summary", data).total = total
            /\ \A r \in realize("precipitation_summary", data) :
                /\ ~IsException(r)
                /\ \E i \in DOMAIN r.text : r.text[i] = Fixed1(total)
                /\ (total # 0 /\ data.summary.mean # NaN) =>
                    \A i \in DOMAIN r.text :
                        r.text[i] # Fixed1(data.summary.mean * stats.basic.n_records)

\* a plan over a table of three rows whose precipitation mean is positive
C29_Witness ==
    /\ Planned
    /\ "precipitation_summary" \in Kinds
    /\ stats.basic.n_records = 3
    /\ stats.precipitation.summary.mean # NaN
    /\ stats.precipitation.summary.mean > 0
    /\ \A r \in realize("precipitation_summary", stats.precipitation) :
        \E i \in DOMAIN r.text :
            r.text[i] = Fixed1(stats.precipitation.summary.mean * DefaultRecords)


\* the regression of the table has a p-value
RegularTimeAxis == Len(df.date) >= 2 /\ SumSqDev(YearNumerics(df)) # 0

====
